---- MODULE Spec2Model ----
(***************************************************************************)
(* A model of rustcurl: the request descriptor (RequestConfig), the        *)
(* resolution policy (resolve_username / resolve_password / resolve_proxy  *)
(* / resolve_noproxy), the command-line parser (parse_args) and the two    *)
(* backends (the libcurl one of curl/request.rs and the reqwest one of     *)
(* backend/reqwest_backend.rs).                                            *)
(*                                                                         *)
(* Option<T> is a sequence of length 0 (None) or 1 (Some(v)).              *)
(***************************************************************************)
EXTENDS Naturals, Sequences, FiniteSets, TLC

VARIABLES
    config,     \* the RequestConfig handed to the resolvers / the backend
    env,        \* the process environment: variable name -> OS value
    resolved,   \* per resolver, the Option it returned at its last call
    args,       \* parse_args: the argument list
    i,          \* parse_args: the scan index (0-based, as in the source)
    locals,     \* parse_args: the `let mut` locals of the scan
    parsed,     \* parse_args: what it returned (running / Ok / Err)
    backend,    \* which HttpBackend runs perform_request
    pc,         \* perform_request: the position in the function body
    easy,       \* libcurl backend: the options set on the Easy handle
    client,     \* reqwest backend: the ClientBuilder / RequestBuilder state
    outcome,    \* perform_request: the Result it returned
    wire,       \* perform_request: what the transfer delivered
    sent,       \* perform_request: the number of transfers started
    fs,         \* the file at the output path, if there is an output path:
                \* None (absent) or Some(content)
    hinted,     \* RequestError::hint: what the calls on the error returned
    stdout,     \* main: what was printed to the standard output
    stderr,     \* main: what was printed to the standard error
    exit_code,  \* main: None while the process runs, Some(status) once it
                \* has ended
    calls       \* RequestConfig: the setter calls made on the descriptor, as
                \* <<setter, argument>>, in the order made

vars == <<config, env, resolved, args, i, locals, parsed,
          backend, pc, easy, client, outcome, wire, sent, fs,
          hinted, stdout, stderr, exit_code, calls>>

resolveVars == <<resolved>>
argVars == <<args, i, locals, parsed>>
requestVars == <<backend, pc, easy, client, outcome, wire, sent, fs>>
mainVars == <<hinted, stdout, stderr, exit_code, calls>>

----------------------------------------------------------------------------
(* Option<T>                                                               *)

None == << >>
Some(v) == <<v>>
is_some(o) == o # None
is_none(o) == o = None
unwrap(o) == o[1]

\* Option::or_else: the receiver when it is Some, else the alternative.
or_else(o, alt) == IF is_some(o) THEN o ELSE alt

\* Option<String>::unwrap_or_default / as_deref().unwrap_or(d)
unwrap_or(o, d) == IF is_some(o) THEN unwrap(o) ELSE d
unwrap_or_default(o) == unwrap_or(o, "")

----------------------------------------------------------------------------
(* The environment.  A variable is not present, present with a value that  *)
(* is valid Unicode (possibly the empty string), or present with a value   *)
(* that is not valid Unicode.                                              *)

EnvNames ==
    {"RUSTCURL_USER", "RUSTCURL_PASSWORD",
     "HTTPS_PROXY", "HTTP_PROXY", "ALL_PROXY",
     "https_proxy", "http_proxy", "all_proxy",
     "NO_PROXY", "no_proxy"}

NotPresent == [kind |-> "NotPresent", val |-> ""]
NotUnicode == [kind |-> "NotUnicode", val |-> ""]
Present(s) == [kind |-> "Ok", val |-> s]

\* The text an environment variable holds when the model sets it: one text
\* per variable, so that a result shows which variable it came from.
EnvText(name) == "env:" \o name

EmptyEnv == [n \in EnvNames |-> NotPresent]

\* env::var(name).ok(): Some(value) when the variable is present and valid
\* Unicode; None when it is not present and also when it is not Unicode.
env_var_ok(e, name) ==
    IF e[name].kind = "Ok" THEN Some(e[name].val) ELSE None

----------------------------------------------------------------------------
(* RequestConfig (curl/config.rs)                                          *)

Methods == {"GET", "POST", "PUT", "DELETE", "HEAD", "PATCH", "OPTIONS"}

\* Method: one of the seven variants, or Custom(s) for any other text.
\* Method::as_str gives the text back, so a method is modelled by its text
\* together with the variant it is.
Method(variant, text) == [variant |-> variant, text |-> text]
Method_Get == Method("Get", "GET")
Method_Post == Method("Post", "POST")
Method_Put == Method("Put", "PUT")
Method_Delete == Method("Delete", "DELETE")
Method_Head == Method("Head", "HEAD")
Method_Patch == Method("Patch", "PATCH")
Method_Options == Method("Options", "OPTIONS")
Method_Custom(s) == Method("Custom", s)

as_str(m) == m.text

RequestConfig_new(url) ==
    [url |-> url,
     method |-> Method_Get,
     negotiate |-> FALSE,
     insecure |-> FALSE,
     cacert |-> None,
     username |-> None,
     password |-> None,
     proxy |-> None,
     verbose |-> FALSE,
     headers |-> << >>,
     data |-> None,
     connect_timeout |-> None,
     max_time |-> None,
     output |-> None,
     head_only |-> FALSE,
     ntlm |-> FALSE,
     proxy_user |-> None,
     proxy_password |-> None,
     noproxy |-> None,
     cookie |-> None,
     cookie_jar |-> None,
     bearer |-> None,
     compressed |-> FALSE,
     show_timing |-> FALSE,
     user_agent |-> None,
     silent |-> FALSE,
     max_redirs |-> None,
     resolve |-> << >>,
     proxy_negotiate |-> FALSE,
     proxy_ntlm |-> FALSE,
     proxy_insecure |-> FALSE,
     proxy_cacert |-> None,
     ssl_no_revoke |-> FALSE]

\* The builder's setters.  A bool or Method setter stores its argument; an
\* Option<String> / Option<Duration> / Option<u32> setter stores Some(arg);
\* header and add_resolve push.
set_field(cfg, field, v) == [cfg EXCEPT ![field] = v]
set_some(cfg, field, v) == [cfg EXCEPT ![field] = Some(v)]
push_field(cfg, field, v) == [cfg EXCEPT ![field] = Append(@, v)]

----------------------------------------------------------------------------
(* Resolution policy (curl/request.rs)                                     *)

resolve_username_EnvFirst(cfg, e) ==
    or_else(env_var_ok(e, "RUSTCURL_USER"), cfg.username)

resolve_username(cfg, e) ==
    or_else(cfg.username, env_var_ok(e, "RUSTCURL_USER"))

resolve_password_SwappedVar(cfg, e) ==
    or_else(cfg.password, env_var_ok(e, "RUSTCURL_USER"))

resolve_password(cfg, e) ==
    or_else(cfg.password, env_var_ok(e, "RUSTCURL_PASSWORD"))

resolve_proxy(cfg, e) ==
    or_else(or_else(or_else(or_else(or_else(or_else(
        cfg.proxy,
        env_var_ok(e, "HTTPS_PROXY")),
        env_var_ok(e, "HTTP_PROXY")),
        env_var_ok(e, "ALL_PROXY")),
        env_var_ok(e, "https_proxy")),
        env_var_ok(e, "http_proxy")),
        env_var_ok(e, "all_proxy"))

resolve_noproxy(cfg, e) ==
    or_else(or_else(
        cfg.noproxy,
        env_var_ok(e, "NO_PROXY")),
        env_var_ok(e, "no_proxy"))

----------------------------------------------------------------------------
(* Strings (str / String of the standard library)                          *)

\* The 1-based position of the first occurrence of the character c in s,
\* 0 when there is none.
find_char(s, c) ==
    LET ks == {k \in 1..Len(s) : SubSeq(s, k, k) = c}
    IN  IF ks = {} THEN 0 ELSE CHOOSE k \in ks : \A j \in ks : k <= j

\* str::starts_with
starts_with(s, prefix) ==
    Len(s) >= Len(prefix) /\ SubSeq(s, 1, Len(prefix)) = prefix

\* str::split_once(':'): None without a colon, else the text before the
\* first colon and the text after it.
split_once(s, c) ==
    LET k == find_char(s, c)
    IN  IF k = 0 THEN None
        ELSE Some(<<SubSeq(s, 1, k - 1), SubSeq(s, k + 1, Len(s))>>)

LowerCase == "abcdefghijklmnopqrstuvwxyz"
UpperCase == "ABCDEFGHIJKLMNOPQRSTUVWXYZ"

upper_char(c) ==
    LET k == find_char(LowerCase, c)
    IN  IF k = 0 THEN c ELSE SubSeq(UpperCase, k, k)

\* str::to_uppercase, on ASCII text.
RECURSIVE to_uppercase(_)
to_uppercase(s) ==
    IF s = "" THEN ""
    ELSE upper_char(SubSeq(s, 1, 1)) \o to_uppercase(SubSeq(s, 2, Len(s)))

Digits == "0123456789"

\* An unsigned integer is modelled by its decimal text without leading
\* zeros: u64 is wider than the integers of the model.
RECURSIVE strip_zeros(_)
strip_zeros(s) ==
    IF Len(s) > 1 /\ SubSeq(s, 1, 1) = "0" THEN strip_zeros(SubSeq(s, 2, Len(s)))
    ELSE s

digit_at(s, k) == find_char(Digits, SubSeq(s, k, k)) - 1

\* a <= b, for two unsigned integers.
digits_le(a, b) ==
    \/ Len(a) < Len(b)
    \/ /\ Len(a) = Len(b)
       /\ \/ a = b
          \/ \E k \in 1..Len(a) :
                /\ SubSeq(a, 1, k - 1) = SubSeq(b, 1, k - 1)
                /\ digit_at(a, k) < digit_at(b, k)

\* u32::MAX and u64::MAX
U32_MAX == "4294967295"
U64_MAX == "18446744073709551615"

\* str::parse::<u64>() / str::parse::<u32>(): an optional '+', then one or
\* more decimal digits, the value no more than the MAX of the type.
parse_unsigned(s, max) ==
    LET body == IF starts_with(s, "+") THEN SubSeq(s, 2, Len(s)) ELSE s
    IN  IF /\ body # ""
           /\ \A k \in 1..Len(body) : find_char(Digits, SubSeq(body, k, k)) # 0
           /\ digits_le(strip_zeros(body), max)
        THEN Some(strip_zeros(body))
        ELSE None

----------------------------------------------------------------------------
(* parse_args (curl/args.rs)                                               *)

\* Result<_, String> of the helpers.
Ok(v) == [ok |-> TRUE, val |-> <<v>>, err |-> ""]
Err(msg) == [ok |-> FALSE, val |-> << >>, err |-> msg]

\* parse_credentials splitting at the last colon (rsplit_once).
parse_credentials_LastColon(input) ==
    LET ks == {k \in 1..Len(input) : SubSeq(input, k, k) = ":"}
        last == CHOOSE k \in ks : \A j \in ks : j <= k
    IN  IF ks = {} THEN <<input, None>>
        ELSE <<SubSeq(input, 1, last - 1), Some(SubSeq(input, last + 1, Len(input)))>>

parse_credentials(input) ==
    LET sp == split_once(input, ":")
    IN  IF is_some(sp) THEN <<unwrap(sp)[1], Some(unwrap(sp)[2])>>
        ELSE <<input, None>>

parse_method(s) ==
    LET u == to_uppercase(s)
    IN  CASE u = "GET" -> Method_Get
          [] u = "POST" -> Method_Post
          [] u = "PUT" -> Method_Put
          [] u = "DELETE" -> Method_Delete
          [] u = "HEAD" -> Method_Head
          [] u = "PATCH" -> Method_Patch
          [] u = "OPTIONS" -> Method_Options
          [] OTHER -> Method_Custom(u)

\* next_arg reading the argument after the option without moving the index.
next_arg_Peek(a, idx, name) ==
    [i |-> idx,
     res |-> IF idx + 1 < Len(a) THEN Ok(a[idx + 2])
             ELSE Err(name \o " requires a value")]

\* next_arg: the index moves on by one; the argument there, or the error.
next_arg(a, idx, name) ==
    [i |-> idx + 1,
     res |-> IF idx + 1 < Len(a) THEN Ok(a[idx + 2])
             ELSE Err(name \o " requires a value")]

parse_seconds(s, name) ==
    IF is_some(parse_unsigned(s, U64_MAX)) THEN Ok(unwrap(parse_unsigned(s, U64_MAX)))
    ELSE Err(name \o " requires a number of seconds")

\* parse_u32 taking every numeral, whatever its size.
parse_u32_AnyNumeral(s, name) ==
    IF is_some(parse_unsigned(s, U64_MAX)) THEN Ok(unwrap(parse_unsigned(s, U64_MAX)))
    ELSE Err(name \o " requires a positive integer")

parse_u32(s, name) ==
    IF is_some(parse_unsigned(s, U32_MAX)) THEN Ok(unwrap(parse_unsigned(s, U32_MAX)))
    ELSE Err(name \o " requires a positive integer")

\* The locals of parse_args before the scan.
parse_args_locals ==
    [url |-> None,
     method |-> None,
     negotiate |-> FALSE,
     insecure |-> FALSE,
     cacert |-> None,
     username |-> None,
     password |-> None,
     proxy |-> None,
     verbose |-> FALSE,
     headers |-> << >>,
     data |-> None,
     connect_timeout |-> None,
     max_time |-> None,
     output |-> None,
     head_only |-> FALSE,
     ntlm |-> FALSE,
     proxy_user |-> None,
     proxy_password |-> None,
     noproxy |-> None,
     cookie |-> None,
     cookie_jar |-> None,
     bearer |-> None,
     compressed |-> FALSE,
     show_timing |-> FALSE,
     user_agent |-> None,
     silent |-> FALSE,
     max_redirs |-> None,
     resolve |-> << >>,
     proxy_negotiate |-> FALSE,
     proxy_ntlm |-> FALSE,
     proxy_insecure |-> FALSE,
     proxy_cacert |-> None,
     ssl_no_revoke |-> FALSE]

\* The options that take a value: the name next_arg reports, and what the
\* arm does with the value ("text": local = Some(val); "push": local.push).
ValueOptions ==
    [tok \in {"-X", "--request", "-H", "--header", "-d", "--data",
              "-o", "--output", "-A", "--user-agent", "-b", "--cookie",
              "-c", "--cookie-jar", "--cacert", "-u", "--user", "--bearer",
              "-x", "--proxy", "--proxy-user", "--proxy-cacert", "--noproxy",
              "--connect-timeout", "--max-time", "--max-redirs", "--resolve"}
     |->
     CASE tok \in {"-X", "--request"} -> [name |-> "-X", kind |-> "method", local |-> "method"]
       [] tok \in {"-H", "--header"} -> [name |-> "-H", kind |-> "push", local |-> "headers"]
       [] tok \in {"-d", "--data"} -> [name |-> "-d", kind |-> "text", local |-> "data"]
       [] tok \in {"-o", "--output"} -> [name |-> "-o", kind |-> "text", local |-> "output"]
       [] tok \in {"-A", "--user-agent"} -> [name |-> "-A", kind |-> "text", local |-> "user_agent"]
       [] tok \in {"-b", "--cookie"} -> [name |-> "-b", kind |-> "text", local |-> "cookie"]
       [] tok \in {"-c", "--cookie-jar"} -> [name |-> "-c", kind |-> "text", local |-> "cookie_jar"]
       [] tok = "--cacert" -> [name |-> "--cacert", kind |-> "text", local |-> "cacert"]
       [] tok \in {"-u", "--user"} -> [name |-> "-u", kind |-> "user", local |-> "username"]
       [] tok = "--bearer" -> [name |-> "--bearer", kind |-> "text", local |-> "bearer"]
       [] tok \in {"-x", "--proxy"} -> [name |-> "-x", kind |-> "text", local |-> "proxy"]
       [] tok = "--proxy-user" -> [name |-> "--proxy-user", kind |-> "proxy_user", local |-> "proxy_user"]
       [] tok = "--proxy-cacert" -> [name |-> "--proxy-cacert", kind |-> "text", local |-> "proxy_cacert"]
       [] tok = "--noproxy" -> [name |-> "--noproxy", kind |-> "text", local |-> "noproxy"]
       [] tok = "--connect-timeout" -> [name |-> "--connect-timeout", kind |-> "seconds", local |-> "connect_timeout"]
       [] tok = "--max-time" -> [name |-> "--max-time", kind |-> "seconds", local |-> "max_time"]
       [] tok = "--max-redirs" -> [name |-> "--max-redirs", kind |-> "u32", local |-> "max_redirs"]
       [] tok = "--resolve" -> [name |-> "--resolve", kind |-> "push", local |-> "resolve"]]

\* The boolean flags: the local each sets to true ("" for -L/--location,
\* which sets nothing).
FlagOptions ==
    [tok \in {"-I", "--head", "-s", "--silent", "--negotiate", "--ntlm",
              "-k", "--insecure", "--proxy-negotiate", "--proxy-ntlm",
              "-L", "--location", "--ssl-no-revoke", "--proxy-insecure",
              "--compressed", "--timing", "-v", "--verbose"}
     |->
     CASE tok \in {"-I", "--head"} -> "head_only"
       [] tok \in {"-s", "--silent"} -> "silent"
       [] tok = "--negotiate" -> "negotiate"
       [] tok = "--ntlm" -> "ntlm"
       [] tok \in {"-k", "--insecure"} -> "insecure"
       [] tok = "--proxy-negotiate" -> "proxy_negotiate"
       [] tok = "--proxy-ntlm" -> "proxy_ntlm"
       [] tok \in {"-L", "--location"} -> ""
       [] tok = "--ssl-no-revoke" -> "ssl_no_revoke"
       [] tok = "--proxy-insecure" -> "proxy_insecure"
       [] tok = "--compressed" -> "compressed"
       [] tok = "--timing" -> "show_timing"
       [] tok \in {"-v", "--verbose"} -> "verbose"]

\* The value-taking arms with -u and --proxy-user leaving a password given
\* before in place when the value has no colon.
take_value_KeepsPassword(l, opt, val) ==
    CASE opt.kind = "method" -> Ok([l EXCEPT !.method = Some(parse_method(val))])
      [] opt.kind = "text" -> Ok([l EXCEPT ![opt.local] = Some(val)])
      [] opt.kind = "push" -> Ok([l EXCEPT ![opt.local] = Append(@, val)])
      [] opt.kind = "user" ->
            Ok([l EXCEPT !.username = Some(parse_credentials(val)[1]),
                         !.password = or_else(parse_credentials(val)[2], @)])
      [] opt.kind = "proxy_user" ->
            Ok([l EXCEPT !.proxy_user = Some(parse_credentials(val)[1]),
                         !.proxy_password = or_else(parse_credentials(val)[2], @)])
      [] opt.kind = "seconds" ->
            IF parse_seconds(val, opt.name).ok
            THEN Ok([l EXCEPT ![opt.local] = Some(unwrap(parse_seconds(val, opt.name).val))])
            ELSE Err(parse_seconds(val, opt.name).err)
      [] opt.kind = "u32" ->
            IF parse_u32(val, opt.name).ok
            THEN Ok([l EXCEPT ![opt.local] = Some(unwrap(parse_u32(val, opt.name).val))])
            ELSE Err(parse_u32(val, opt.name).err)

\* The value-taking arms with a single-valued text option keeping the value
\* of its first occurrence.
take_value_FirstWins(l, opt, val) ==
    CASE opt.kind = "method" -> Ok([l EXCEPT !.method = Some(parse_method(val))])
      [] opt.kind = "text" ->
            Ok(IF is_some(l[opt.local]) THEN l ELSE [l EXCEPT ![opt.local] = Some(val)])
      [] opt.kind = "push" -> Ok([l EXCEPT ![opt.local] = Append(@, val)])
      [] opt.kind = "user" ->
            Ok([l EXCEPT !.username = Some(parse_credentials(val)[1]),
                         !.password = parse_credentials(val)[2]])
      [] opt.kind = "proxy_user" ->
            Ok([l EXCEPT !.proxy_user = Some(parse_credentials(val)[1]),
                         !.proxy_password = parse_credentials(val)[2]])
      [] opt.kind = "seconds" ->
            IF parse_seconds(val, opt.name).ok
            THEN Ok([l EXCEPT ![opt.local] = Some(unwrap(parse_seconds(val, opt.name).val))])
            ELSE Err(parse_seconds(val, opt.name).err)
      [] opt.kind = "u32" ->
            IF parse_u32(val, opt.name).ok
            THEN Ok([l EXCEPT ![opt.local] = Some(unwrap(parse_u32(val, opt.name).val))])
            ELSE Err(parse_u32(val, opt.name).err)

\* The body of a value-taking arm once next_arg gave `val`.
take_value(l, opt, val) ==
    CASE opt.kind = "method" -> Ok([l EXCEPT !.method = Some(parse_method(val))])
      [] opt.kind = "text" -> Ok([l EXCEPT ![opt.local] = Some(val)])
      [] opt.kind = "push" -> Ok([l EXCEPT ![opt.local] = Append(@, val)])
      [] opt.kind = "user" ->
            Ok([l EXCEPT !.username = Some(parse_credentials(val)[1]),
                         !.password = parse_credentials(val)[2]])
      [] opt.kind = "proxy_user" ->
            Ok([l EXCEPT !.proxy_user = Some(parse_credentials(val)[1]),
                         !.proxy_password = parse_credentials(val)[2]])
      [] opt.kind = "seconds" ->
            IF parse_seconds(val, opt.name).ok
            THEN Ok([l EXCEPT ![opt.local] = Some(unwrap(parse_seconds(val, opt.name).val))])
            ELSE Err(parse_seconds(val, opt.name).err)
      [] opt.kind = "u32" ->
            IF parse_u32(val, opt.name).ok
            THEN Ok([l EXCEPT ![opt.local] = Some(unwrap(parse_u32(val, opt.name).val))])
            ELSE Err(parse_u32(val, opt.name).err)

\* One iteration of the scan loop at index idx: the `match args[i]` and the
\* `i += 1` after it.  step is "continue", "err" (an early return of Err) or
\* "exit" (-h / --help: print_usage and std::process::exit(0)).
scan_token(l, a, idx) ==
    LET tok == a[idx + 1]
        go(l2, idx2) == [step |-> "continue", locals |-> l2, i |-> idx2 + 1, err |-> ""]
        fail(idx2, msg) == [step |-> "err", locals |-> l, i |-> idx2, err |-> msg]
    IN  CASE tok \in {"-h", "--help"} ->
                [step |-> "exit", locals |-> l, i |-> idx, err |-> ""]
          [] tok \in DOMAIN ValueOptions ->
                LET na == next_arg(a, idx, ValueOptions[tok].name)
                IN  IF ~na.res.ok THEN fail(na.i, na.res.err)
                    ELSE LET r == take_value(l, ValueOptions[tok], unwrap(na.res.val))
                         IN  IF r.ok THEN go(unwrap(r.val), na.i)
                             ELSE fail(na.i, r.err)
          [] tok \in DOMAIN FlagOptions ->
                IF FlagOptions[tok] = "" THEN go(l, idx)
                ELSE go([l EXCEPT ![FlagOptions[tok]] = TRUE], idx)
          [] OTHER ->
                IF starts_with(tok, "-") THEN fail(idx, "unknown option: " \o tok)
                ELSE go([l EXCEPT !.url = Some(tok)], idx)

\* The method the descriptor gets: POST when data was given without an
\* explicit method, then HEAD when -I was given and there is still no
\* method, then the explicit method, GET when there is none at all.
auto_method_HeadFirst(l) ==
    LET m1 == IF l.head_only /\ is_none(l.method) THEN Some(Method_Head) ELSE l.method
        m2 == IF is_some(l.data) /\ is_none(m1) THEN Some(Method_Post) ELSE m1
    IN  unwrap_or(m2, Method_Get)

auto_method_HeadAlways(l) ==
    LET m1 == IF is_some(l.data) /\ is_none(l.method) THEN Some(Method_Post) ELSE l.method
        m2 == IF l.head_only THEN Some(Method_Head) ELSE m1
    IN  unwrap_or(m2, Method_Get)

auto_method(l) ==
    LET m1 == IF is_some(l.data) /\ is_none(l.method) THEN Some(Method_Post) ELSE l.method
        m2 == IF l.head_only /\ is_none(m1) THEN Some(Method_Head) ELSE m1
    IN  unwrap_or(m2, Method_Get)

\* if let Some(v) = local { config = config.setter(&v) }
set_if_some(cfg, field, o) == IF is_some(o) THEN set_some(cfg, field, unwrap(o)) ELSE cfg

\* The locals an `if let Some` of the tail hands to a setter, in the order
\* of the source.
OptionalLocals ==
    <<"cacert", "username", "password", "proxy", "data", "connect_timeout",
      "max_time", "output", "proxy_user", "proxy_password", "noproxy",
      "cookie", "cookie_jar", "bearer", "user_agent", "max_redirs",
      "proxy_cacert">>

BoolLocals ==
    <<"negotiate", "insecure", "verbose", "head_only", "ntlm", "compressed",
      "show_timing", "silent", "proxy_negotiate", "proxy_ntlm",
      "proxy_insecure", "ssl_no_revoke">>

RECURSIVE set_bools(_, _, _)
set_bools(cfg, l, k) ==
    IF k > Len(BoolLocals) THEN cfg
    ELSE set_bools(set_field(cfg, BoolLocals[k], l[BoolLocals[k]]), l, k + 1)

RECURSIVE set_optionals(_, _, _)
set_optionals(cfg, l, k) ==
    IF k > Len(OptionalLocals) THEN cfg
    ELSE set_optionals(set_if_some(cfg, OptionalLocals[k], l[OptionalLocals[k]]), l, k + 1)

\* The tail of parse_args, after the scan: the URL check, the method and
\* the descriptor built with the setters.
build_config(l) ==
    IF is_none(l.url) THEN Err("URL is required")
    ELSE LET c1 == set_field(RequestConfig_new(unwrap(l.url)), "method", auto_method(l))
             c2 == set_bools(c1, l, 1)
             c3 == [c2 EXCEPT !.headers = l.headers, !.resolve = l.resolve]
         IN  Ok(set_optionals(c3, l, 1))

----------------------------------------------------------------------------
(* The libcurl backend (curl/request.rs).  The Easy handle is the record   *)
(* of its options: None for an option never set, Some(v) once set to v.    *)

Easy_new ==
    [url |-> None, follow_location |-> None,
     post |-> None, put |-> None, nobody |-> None, custom_request |-> None,
     http_auth |-> None, username |-> None, password |-> None,
     http_headers |-> None, post_field_size |-> None, post_fields |-> None,
     ssl_verify_peer |-> None, ssl_verify_host |-> None, cainfo |-> None,
     proxy |-> None, noproxy |-> None, proxy_auth |-> None,
     proxy_username |-> None, proxy_password |-> None,
     proxy_ssl_verify_peer |-> None, proxy_ssl_verify_host |-> None,
     proxy_cainfo |-> None, connect_timeout |-> None, timeout |-> None,
     cookie_file |-> None, cookie_jar |-> None, accept_encoding |-> None,
     useragent |-> None, max_redirections |-> None, ssl_options |-> None,
     proxy_ssl_options |-> None, verbose |-> None, resolve |-> None]

\* easy.<option>(v)
setopt(e, option, v) == [e EXCEPT ![option] = Some(v)]

\* if let Some(ref v) = o { easy.<option>(v) }
setopt_if_some(e, option, o) == IF is_some(o) THEN setopt(e, option, unwrap(o)) ELSE e

\* if flag { easy.<option>(v) }
setopt_if(e, flag, option, v) == IF flag THEN setopt(e, option, v) ELSE e

DefaultUserAgent ==
    "Mozilla/5.0 (Windows NT 10.0; Win64; x64) AppleWebKit/537.36 (KHTML, like Gecko) Chrome/131.0.0.0 Safari/537.36 Edg/131.0.0.0"

\* Easy::new, easy.url, easy.follow_location(true)
easy_init(cfg) ==
    setopt(setopt(Easy_new, "url", cfg.url), "follow_location", TRUE)

\* apply_method with the head-only override for GET alone.
apply_method_OverrideGetOnly(e, cfg) ==
    LET e1 == CASE cfg.method.variant = "Get" -> e
                [] cfg.method.variant = "Post" -> setopt(e, "post", TRUE)
                [] cfg.method.variant = "Put" -> setopt(e, "put", TRUE)
                [] cfg.method.variant = "Head" -> setopt(e, "nobody", TRUE)
                [] OTHER -> setopt(e, "custom_request", as_str(cfg.method))
    IN  setopt_if(e1, cfg.head_only /\ cfg.method = Method_Get, "nobody", TRUE)

apply_method(e, cfg) ==
    LET e1 == CASE cfg.method.variant = "Get" -> e
                [] cfg.method.variant = "Post" -> setopt(e, "post", TRUE)
                [] cfg.method.variant = "Put" -> setopt(e, "put", TRUE)
                [] cfg.method.variant = "Head" -> setopt(e, "nobody", TRUE)
                [] OTHER -> setopt(e, "custom_request", as_str(cfg.method))
    IN  setopt_if(e1, cfg.head_only /\ cfg.method # Method_Head, "nobody", TRUE)

apply_auth_NtlmFirst(e, cfg, ev) ==
    IF cfg.ntlm
    THEN setopt(setopt(setopt(e,
            "http_auth", "ntlm"),
            "username", unwrap_or_default(resolve_username(cfg, ev))),
            "password", unwrap_or_default(resolve_password(cfg, ev)))
    ELSE IF cfg.negotiate
    THEN setopt(setopt(setopt(e,
            "http_auth", "gssnegotiate"),
            "username", unwrap_or_default(resolve_username(cfg, ev))),
            "password", unwrap_or_default(resolve_password(cfg, ev)))
    ELSE IF is_some(resolve_username(cfg, ev))
    THEN setopt_if_some(
            setopt(e, "username", unwrap(resolve_username(cfg, ev))),
            "password", resolve_password(cfg, ev))
    ELSE e

apply_auth_RawCredentials(e, cfg, ev) ==
    IF cfg.negotiate
    THEN setopt(setopt(setopt(e,
            "http_auth", "gssnegotiate"),
            "username", unwrap_or_default(cfg.username)),
            "password", unwrap_or_default(cfg.password))
    ELSE IF cfg.ntlm
    THEN setopt(setopt(setopt(e,
            "http_auth", "ntlm"),
            "username", unwrap_or_default(cfg.username)),
            "password", unwrap_or_default(cfg.password))
    ELSE IF is_some(cfg.username)
    THEN setopt_if_some(
            setopt(e, "username", unwrap(cfg.username)),
            "password", cfg.password)
    ELSE e

apply_auth(e, cfg, ev) ==
    IF cfg.negotiate
    THEN setopt(setopt(setopt(e,
            "http_auth", "gssnegotiate"),
            "username", unwrap_or_default(resolve_username(cfg, ev))),
            "password", unwrap_or_default(resolve_password(cfg, ev)))
    ELSE IF cfg.ntlm
    THEN setopt(setopt(setopt(e,
            "http_auth", "ntlm"),
            "username", unwrap_or_default(resolve_username(cfg, ev))),
            "password", unwrap_or_default(resolve_password(cfg, ev)))
    ELSE IF is_some(resolve_username(cfg, ev))
    THEN setopt_if_some(
            setopt(e, "username", unwrap(resolve_username(cfg, ev))),
            "password", resolve_password(cfg, ev))
    ELSE e

\* build_headers with the bearer entry put in place of an explicit
\* Authorization header.
RECURSIVE without_authorization(_)
without_authorization(hs) ==
    IF hs = << >> THEN << >>
    ELSE IF starts_with(Head(hs), "Authorization:")
         THEN without_authorization(Tail(hs))
         ELSE <<Head(hs)>> \o without_authorization(Tail(hs))

build_headers_BearerReplaces(cfg) ==
    IF is_some(cfg.bearer)
    THEN Append(without_authorization(cfg.headers),
                "Authorization: Bearer " \o unwrap(cfg.bearer))
    ELSE cfg.headers

\* The List handed to easy.http_headers.
build_headers(cfg) ==
    IF is_some(cfg.bearer)
    THEN Append(cfg.headers, "Authorization: Bearer " \o unwrap(cfg.bearer))
    ELSE cfg.headers

\* easy.http_headers(header_list) and the post fields of the body.
apply_headers_and_body(e, cfg) ==
    LET e1 == setopt(e, "http_headers", build_headers(cfg))
    IN  IF is_some(cfg.data)
        THEN setopt(setopt(e1,
                "post_field_size", Len(unwrap(cfg.data))),
                "post_fields", unwrap(cfg.data))
        ELSE e1

\* The proxy authentication part of apply_options.
apply_proxy_auth(e, cfg) ==
    LET e1 == IF cfg.proxy_negotiate
              THEN setopt(setopt(e,
                      "proxy_auth", "gssnegotiate"),
                      "proxy_username", unwrap_or(cfg.proxy_user, ":"))
              ELSE setopt_if(e, cfg.proxy_ntlm, "proxy_auth", "ntlm")
        e2 == setopt_if_some(e1, "proxy_username", cfg.proxy_user)
    IN  setopt_if_some(e2, "proxy_password", cfg.proxy_password)

apply_options(e, cfg, ev) ==
    LET e1 == setopt_if(setopt_if(e,
                  cfg.insecure, "ssl_verify_peer", FALSE),
                  cfg.insecure, "ssl_verify_host", FALSE)
        e2 == setopt_if_some(e1, "cainfo", cfg.cacert)
        e3 == setopt_if_some(e2, "proxy", resolve_proxy(cfg, ev))
        e4 == setopt_if_some(e3, "noproxy", resolve_noproxy(cfg, ev))
        e5 == apply_proxy_auth(e4, cfg)
        e6 == setopt_if(setopt_if(e5,
                  cfg.proxy_insecure, "proxy_ssl_verify_peer", FALSE),
                  cfg.proxy_insecure, "proxy_ssl_verify_host", FALSE)
        e7 == setopt_if_some(e6, "proxy_cainfo", cfg.proxy_cacert)
        e8 == setopt_if_some(e7, "connect_timeout", cfg.connect_timeout)
        e9 == setopt_if_some(e8, "timeout", cfg.max_time)
        e10 == setopt_if_some(e9, "cookie_file", cfg.cookie)
        e11 == setopt_if_some(e10, "cookie_jar", cfg.cookie_jar)
        e12 == setopt_if(e11, cfg.compressed, "accept_encoding", "")
        e13 == setopt(e12, "useragent", unwrap_or(cfg.user_agent, DefaultUserAgent))
        e14 == setopt_if_some(e13, "max_redirections", cfg.max_redirs)
        e15 == setopt_if(setopt_if(e14,
                  cfg.ssl_no_revoke, "ssl_options", "no_revoke"),
                  cfg.ssl_no_revoke, "proxy_ssl_options", "no_revoke")
    IN  setopt_if(e15, cfg.verbose, "verbose", TRUE)

apply_resolve(e, cfg) ==
    setopt_if(e, cfg.resolve # << >>, "resolve", cfg.resolve)

----------------------------------------------------------------------------
(* What the transport delivers                                             *)

Whitespace == {" ", "\t", "\r", "\n"}

\* str::trim: leading and trailing whitespace removed.
trim(s) ==
    LET keep == {k \in 1..Len(s) : SubSeq(s, k, k) \notin Whitespace}
    IN  IF keep = {} THEN ""
        ELSE SubSeq(s, CHOOSE k \in keep : \A j \in keep : k <= j,
                       CHOOSE k \in keep : \A j \in keep : j <= k)

\* A reply of the server as the transport sees it: the header data, line by
\* line, of every response of the transaction (the responses to followed
\* redirects included), each line valid UTF-8 or not; the body chunks of the
\* final response; its status code; the six times the handle reports.
Line(text) == [utf8 |-> TRUE, text |-> text]
BinaryLine == [utf8 |-> FALSE, text |-> ""]

PlainReply ==
    [lines |-> <<Line("HTTP/1.1 200 OK\r\n"),
                 Line("Content-Type: text/html\r\n"),
                 BinaryLine,
                 Line("\r\n")>>,
     chunks |-> <<"<html>", "</html>">>,
     code |-> 200,
     times |-> [dns |-> 1, connect |-> 2, tls |-> 3,
                starttransfer |-> 4, total |-> 5, redirect |-> 0]]

RedirectedReply ==
    [lines |-> <<Line("HTTP/1.1 302 Found\r\n"),
                 Line("Location: /next\r\n"),
                 Line("\r\n"),
                 Line("HTTP/1.1 204 No Content\r\n"),
                 Line("X-Trace:  a:b \r\n"),
                 Line("\r\n")>>,
     chunks |-> << >>,
     code |-> 204,
     times |-> [dns |-> 1, connect |-> 2, tls |-> 0,
                starttransfer |-> 4, total |-> 6, redirect |-> 1]]

ServerReplies == {PlainReply, RedirectedReply}

NoReply ==
    [lines |-> << >>, chunks |-> << >>, code |-> 0,
     times |-> [dns |-> 0, connect |-> 0, tls |-> 0,
                starttransfer |-> 0, total |-> 0, redirect |-> 0]]

\* Result<Response, RequestError>
\* An error has its variant; a Curl error the condition libcurl reports
\* (code) and the text of its Display (message), an Io, Config or Http error
\* the text of its payload.
NoOutcome ==
    [kind |-> "none", err |-> "", response |-> None, code |-> "", message |-> ""]
OkResponse(r) ==
    [kind |-> "ok", err |-> "", response |-> Some(r), code |-> "", message |-> ""]
ErrorOf(variant, code, message) ==
    [kind |-> "err", err |-> variant, response |-> None,
     code |-> code, message |-> message]
RequestError(variant) ==
    ErrorOf(variant, IF variant = "Curl" THEN "OTHER" ELSE "", "failed")

Response(status_code, headers, body, timing) ==
    [status_code |-> status_code, headers |-> headers,
     body |-> body, timing |-> timing]

\* The header_function closure over all the lines delivered: a line that is
\* valid UTF-8 and not empty once trimmed is pushed, trimmed.
RECURSIVE header_function(_, _)
header_function(headers, lines) ==
    IF lines = << >> THEN headers
    ELSE header_function(
            IF Head(lines).utf8 /\ trim(Head(lines).text) # ""
            THEN Append(headers, trim(Head(lines).text))
            ELSE headers,
            Tail(lines))

\* The write_function closure over all the chunks: body.extend_from_slice.
RECURSIVE write_function(_, _)
write_function(body, chunks) ==
    IF chunks = << >> THEN body
    ELSE write_function(body \o Head(chunks), Tail(chunks))

collect_timing(reply) == reply.times

\* The handle as perform_request has set it up when the transfer starts.
curl_setup(cfg, ev) ==
    apply_resolve(
        apply_options(
            apply_headers_and_body(
                apply_auth(apply_method(easy_init(cfg), cfg), cfg, ev),
                cfg),
            cfg, ev),
        cfg)

\* The Response with the body kept in memory whatever the output path.
curl_response_BodyKept(cfg, reply) ==
    Response(reply.code,
             header_function(<< >>, reply.lines),
             write_function("", reply.chunks),
             IF cfg.show_timing THEN Some(collect_timing(reply)) ELSE None)

\* The Response perform_request returns after a transfer that succeeded.
curl_response(cfg, reply) ==
    Response(reply.code,
             header_function(<< >>, reply.lines),
             IF is_some(cfg.output) THEN "" ELSE write_function("", reply.chunks),
             IF cfg.show_timing THEN Some(collect_timing(reply)) ELSE None)

----------------------------------------------------------------------------
(* The reqwest backend (backend/reqwest_backend.rs)                        *)

ClientBuilder_new ==
    [auth |-> [kind |-> "none", username |-> "", password |-> ""],
     danger_accept_invalid_certs |-> FALSE,
     root_certificates |-> << >>,
     proxies |-> << >>,
     auto_sys_proxy |-> TRUE,
     connect_timeout |-> None,
     timeout |-> None,
     redirect |-> None,
     user_agent |-> None,
     built |-> FALSE,
     request |-> None]

negotiate_with_credentials(b, username, password) ==
    [b EXCEPT !.auth = [kind |-> "negotiate_with_credentials",
                        username |-> username, password |-> password]]

negotiate_current_user(b) ==
    [b EXCEPT !.auth = [kind |-> "negotiate", username |-> "", password |-> ""]]

\* The authentication part with NTLM applying the credentials as soon as one
\* of the two is present.
build_client_auth_NtlmPartial(b, cfg) ==
    IF cfg.negotiate
    THEN IF is_some(cfg.username) \/ is_some(cfg.password)
         THEN negotiate_with_credentials(b, unwrap_or(cfg.username, ""),
                                            unwrap_or(cfg.password, ""))
         ELSE negotiate_current_user(b)
    ELSE IF cfg.ntlm
    THEN IF is_some(cfg.username) \/ is_some(cfg.password)
         THEN negotiate_with_credentials(b, unwrap_or(cfg.username, ""),
                                            unwrap_or(cfg.password, ""))
         ELSE b
    ELSE b

\* The authentication part of build_client.
build_client_auth(b, cfg) ==
    IF cfg.negotiate
    THEN IF is_some(cfg.username) \/ is_some(cfg.password)
         THEN negotiate_with_credentials(b, unwrap_or(cfg.username, ""),
                                            unwrap_or(cfg.password, ""))
         ELSE negotiate_current_user(b)
    ELSE IF cfg.ntlm
    THEN IF is_some(cfg.username) /\ is_some(cfg.password)
         THEN negotiate_with_credentials(b, unwrap(cfg.username), unwrap(cfg.password))
         ELSE b
    ELSE b

\* if let Some(ref proxy_url) = resolve_proxy(config) {..}: Proxy::all, a
\* proxy for every host (its exemption list, no_proxy, is left None), with
\* basic_auth when a proxy user is given, whether or not proxy negotiate /
\* NTLM was asked for.
client_proxy_BasicOnlyWithoutFlags(b, cfg, ev) ==
    IF is_some(resolve_proxy(cfg, ev))
    THEN [b EXCEPT !.proxies = Append(@,
            [url |-> unwrap(resolve_proxy(cfg, ev)),
             no_proxy |-> None,
             basic_auth |->
                IF is_some(cfg.proxy_user)
                   /\ ~(cfg.proxy_negotiate \/ cfg.proxy_ntlm)
                THEN Some(<<unwrap(cfg.proxy_user),
                            unwrap_or(cfg.proxy_password, "")>>)
                ELSE None])]
    ELSE b

client_proxy(b, cfg, ev) ==
    IF is_some(resolve_proxy(cfg, ev))
    THEN [b EXCEPT !.proxies = Append(@,
            [url |-> unwrap(resolve_proxy(cfg, ev)),
             no_proxy |-> None,
             basic_auth |->
                IF is_some(cfg.proxy_user)
                THEN Some(<<unwrap(cfg.proxy_user),
                            unwrap_or(cfg.proxy_password, "")>>)
                ELSE None])]
    ELSE b

\* if let Some(_noproxy) = resolve_noproxy(config) { builder.no_proxy() }:
\* ClientBuilder::no_proxy clears every proxy of the builder and turns the
\* system proxies off.
client_no_proxy(b, cfg, ev) ==
    IF is_some(resolve_noproxy(cfg, ev))
    THEN [b EXCEPT !.proxies = << >>, !.auto_sys_proxy = FALSE]
    ELSE b

\* The proxy part of build_client.
build_client_proxy(b, cfg, ev) == client_no_proxy(client_proxy(b, cfg, ev), cfg, ev)

\* build_client up to builder.proxy(proxy): authentication, TLS, proxy.
build_client_head(cfg, ev) ==
    LET b1 == build_client_auth(ClientBuilder_new, cfg)
        b2 == IF cfg.insecure THEN [b1 EXCEPT !.danger_accept_invalid_certs = TRUE] ELSE b1
        b3 == IF is_some(cfg.cacert)
              THEN [b2 EXCEPT !.root_certificates = Append(@, unwrap(cfg.cacert))]
              ELSE b2
    IN  client_proxy(b3, cfg, ev)

\* build_client from the no-proxy list on: no_proxy, timeouts, redirects,
\* user agent, builder.build().
build_client_tail(b, cfg, ev) ==
    [client_no_proxy(b, cfg, ev) EXCEPT
        !.connect_timeout = cfg.connect_timeout,
        !.timeout = cfg.max_time,
        !.redirect = cfg.max_redirs,
        !.user_agent = cfg.user_agent,
        !.built = TRUE]

build_client(cfg, ev) == build_client_tail(build_client_head(cfg, ev), cfg, ev)

\* The errors of build_client_head: std::io::Error (as RequestError::Io)
\* from reading the CA file, reqwest::Error (as RequestError::Http) from
\* Certificate::from_pem and from Proxy::all.
build_client_head_errors(cfg, ev) ==
    (IF is_some(cfg.cacert) THEN {"Io", "Http"} ELSE {})
        \cup (IF is_some(resolve_proxy(cfg, ev)) THEN {"Http"} ELSE {})

\* impl From<reqwest::Error> for RequestError
From_reqwest_Error(call) == ErrorOf("Http", "", call)

\* impl From<std::io::Error> for RequestError
From_io_Error(call) == ErrorOf("Io", "", call)

\* The same errors as RequestError values, the message of each naming the
\* call that returned it.
build_client_head_failures(cfg, ev) ==
    (IF is_some(cfg.cacert)
     THEN {From_io_Error("std::fs::read"), From_reqwest_Error("Certificate::from_pem")}
     ELSE {})
        \cup (IF is_some(resolve_proxy(cfg, ev))
              THEN {From_reqwest_Error("Proxy::all")} ELSE {})

\* The errors build_client can return: reqwest::Error (as RequestError::Http)
\* from builder.build(), from Certificate::from_pem and from Proxy::all, and
\* std::io::Error (as RequestError::Io) from reading the CA file.
build_client_errors(cfg, ev) ==
    {"Http"} \cup (IF is_some(cfg.cacert) THEN {"Io"} ELSE {})

\* reqwest::Method::from_bytes accepts the HTTP token characters (the grave
\* accent, a token character no input of this model contains, cannot be
\* written in a string here).
TokenChars ==
    "ABCDEFGHIJKLMNOPQRSTUVWXYZabcdefghijklmnopqrstuvwxyz0123456789!#$%&'*+-.^_|~"

is_token(s) ==
    /\ s # ""
    /\ \A k \in 1..Len(s) : find_char(TokenChars, SubSeq(s, k, k)) # 0

\* for header_str in &config.headers: a header with a colon is added with
\* name and value trimmed; one without a colon is skipped.
RECURSIVE request_headers(_, _)
request_headers(acc, hs) ==
    IF hs = << >> THEN acc
    ELSE LET sp == split_once(Head(hs), ":")
         IN  request_headers(
                IF is_some(sp)
                THEN Append(acc, <<trim(unwrap(sp)[1]), trim(unwrap(sp)[2])>>)
                ELSE acc,
                Tail(hs))

\* The request builder perform_request puts together: Ok(request) or the
\* RequestError::Config of a custom method that is no HTTP token.
build_request(cfg) ==
    IF cfg.method.variant = "Custom" /\ ~is_token(as_str(cfg.method))
    THEN Err("Config")
    ELSE Ok([method |-> as_str(cfg.method),
             url |-> cfg.url,
             headers |-> request_headers(<< >>, cfg.headers),
             bearer_auth |-> cfg.bearer,
             body |-> cfg.data])

LowerOf(c) ==
    LET k == find_char(UpperCase, c)
    IN  IF k = 0 THEN c ELSE SubSeq(LowerCase, k, k)

RECURSIVE to_lowercase(_)
to_lowercase(s) ==
    IF s = "" THEN ""
    ELSE LowerOf(SubSeq(s, 1, 1)) \o to_lowercase(SubSeq(s, 2, Len(s)))

\* The 1-based position of the last status line ("HTTP/...") among the
\* lines, 0 when there is none.
last_status_line(lines) ==
    LET ks == {k \in 1..Len(lines) : lines[k].utf8 /\ starts_with(lines[k].text, "HTTP/")}
    IN  IF ks = {} THEN 0 ELSE CHOOSE k \in ks : \A j \in ks : j <= k

\* response.headers() rendered "name: value": the header fields of the final
\* response, names in lower case, a value that is not visible ASCII left out.
RECURSIVE response_headers(_, _)
response_headers(acc, lines) ==
    IF lines = << >> THEN acc
    ELSE LET sp == split_once(Head(lines).text, ":")
         IN  response_headers(
                IF Head(lines).utf8 /\ is_some(sp)
                THEN Append(acc, to_lowercase(trim(unwrap(sp)[1])) \o ": "
                                   \o trim(unwrap(sp)[2]))
                ELSE acc,
                Tail(lines))

\* The Response with the timing the descriptor asks for.
reqwest_response_WithTiming(cfg, reply) ==
    Response(reply.code,
             response_headers(<< >>,
                SubSeq(reply.lines, last_status_line(reply.lines) + 1, Len(reply.lines))),
             write_function("", reply.chunks),
             IF cfg.show_timing THEN Some(collect_timing(reply)) ELSE None)

\* The Response the reqwest backend returns.
reqwest_response(cfg, reply) ==
    Response(reply.code,
             response_headers(<< >>,
                SubSeq(reply.lines, last_status_line(reply.lines) + 1, Len(reply.lines))),
             write_function("", reply.chunks),
             None)

----------------------------------------------------------------------------
(* RequestError (curl/error.rs)                                            *)

\* The 1-based positions at which sub occurs in s.
occurrences(s, sub) ==
    {k \in 1..(Len(s) - Len(sub) + 1) : SubSeq(s, k, k + Len(sub) - 1) = sub}

\* str::contains
contains(s, sub) == sub = "" \/ occurrences(s, sub) # {}

\* The predicates of curl::Error: each tests the code of the error.
is_couldnt_resolve_host(e) == e.code = "COULDNT_RESOLVE_HOST"
is_couldnt_resolve_proxy(e) == e.code = "COULDNT_RESOLVE_PROXY"
is_ssl_connect_error(e) == e.code = "SSL_CONNECT_ERROR"
is_peer_failed_verification(e) == e.code = "PEER_FAILED_VERIFICATION"

HintDns ==
    "Hint: DNS resolution failed. If behind a corporate proxy, set HTTPS_PROXY or use -x <proxy-url>"
HintProxyDns ==
    "Hint: Could not resolve proxy hostname. Check your proxy URL"
HintSsl ==
    "Hint: SSL error. Try --insecure (-k), --cacert <path>, or --ssl-no-revoke for revocation issues"
HintRevocation ==
    "Hint: Certificate revocation check failed. Try --ssl-no-revoke to disable revocation checks"
HintProxyAuth ==
    "Hint: Proxy requires authentication (407). Try --proxy-negotiate for Kerberos/SPNEGO or --proxy-user <user:pass>"

\* hint with the two tests on the message put before the tests on the code.
hint_MessageFirst(e) ==
    IF e.err # "Curl" THEN None
    ELSE IF contains(e.message, "revocation") THEN Some(HintRevocation)
    ELSE IF contains(e.message, "407") THEN Some(HintProxyAuth)
    ELSE IF is_couldnt_resolve_host(e) THEN Some(HintDns)
    ELSE IF is_couldnt_resolve_proxy(e) THEN Some(HintProxyDns)
    ELSE IF is_ssl_connect_error(e) \/ is_peer_failed_verification(e)
    THEN Some(HintSsl)
    ELSE None

\* RequestError::hint: the match arms in their order.
hint(e) ==
    IF e.err # "Curl" THEN None
    ELSE IF is_couldnt_resolve_host(e) THEN Some(HintDns)
    ELSE IF is_couldnt_resolve_proxy(e) THEN Some(HintProxyDns)
    ELSE IF is_ssl_connect_error(e) \/ is_peer_failed_verification(e)
    THEN Some(HintSsl)
    ELSE IF contains(e.message, "revocation") THEN Some(HintRevocation)
    ELSE IF contains(e.message, "407") THEN Some(HintProxyAuth)
    ELSE None

\* impl fmt::Display for RequestError
display(e) ==
    CASE e.err = "Curl" -> "curl error: " \o e.message
      [] e.err = "Io" -> "io error: " \o e.message
      [] e.err = "Config" -> "config error: " \o e.message
      [] e.err = "Http" -> "http error: " \o e.message

----------------------------------------------------------------------------
(* Idle values of the variables a specification does not use.              *)

IdleArgs == << >>
IdleLocals == parse_args_locals
IdleParsed == [state |-> "idle", res |-> None]
IdleEasy == Easy_new
IdleClient == ClientBuilder_new
IdleOutcome == NoOutcome

\* main has printed nothing, hint has not been called, no setter has been
\* called.
MainIdle ==
    /\ hinted = << >> /\ stdout = "" /\ stderr = "" /\ exit_code = None
    /\ calls = << >>

RequestIdle ==
    /\ backend = "none" /\ pc = "idle" /\ easy = IdleEasy
    /\ client = IdleClient /\ outcome = IdleOutcome
    /\ wire = NoReply /\ sent = 0 /\ fs = None
    /\ MainIdle

ResolveIdle ==
    /\ args = IdleArgs /\ i = 0 /\ locals = IdleLocals /\ parsed = IdleParsed
    /\ RequestIdle

----------------------------------------------------------------------------
(* SpecResolve: the four resolvers called, any number of times and in any  *)
(* order, on one descriptor in one environment.  resolved[f] holds what    *)
(* resolver f returned: nothing before its first call, then the result of  *)
(* the first call and, from the second call on, that of the latest call.   *)

MaxResolveInputs == 2

ResolveFields == {"username", "password", "proxy", "noproxy"}

\* The bool fields of RequestConfig.
BoolFields ==
    {"negotiate", "insecure", "verbose", "head_only", "ntlm", "compressed",
     "show_timing", "silent", "proxy_negotiate", "proxy_ntlm",
     "proxy_insecure", "ssl_no_revoke"}

\* The header lists a descriptor takes: one header twice; an explicit
\* Authorization header between two others.
HeaderChoice(k) ==
    IF k = 1 THEN <<"X-A: 1", "X-A: 1">>
    ELSE <<"Accept: */*", "Authorization: Basic abc", "X-A: 1">>

\* The explicit values a descriptor field takes: true for a bool field; a
\* header list for headers; for an Option<String> field the empty string, or
\* a text that names the field.
CfgChoice(field, k) ==
    IF field \in BoolFields THEN TRUE
    ELSE IF field = "headers" THEN HeaderChoice(k)
    ELSE IF k = 1 THEN Some("") ELSE Some("cfg:" \o field)

\* How many values an input takes.
NumChoices(x) ==
    IF x \in EnvNames THEN 3 ELSE IF x \in BoolFields THEN 1 ELSE 2

\* The values a present environment variable takes: the empty string, a text
\* that names the variable, bytes that are not valid Unicode.
EnvChoice(name, k) ==
    IF k = 1 THEN Present("")
    ELSE IF k = 2 THEN Present(EnvText(name))
    ELSE NotUnicode

\* Descriptors and environments with at most `bound` of the fields `fields`
\* and environment variables `names` away from their default.
InputsInit(fields, names, bound) ==
    \E S \in {T \in SUBSET (fields \cup names) : Cardinality(T) <= bound} :
        \E v \in [S -> 1..3] :
            /\ \A x \in S : v[x] <= NumChoices(x)
            /\ config = [f \in DOMAIN RequestConfig_new("https://x.com") |->
                            IF f \in S THEN CfgChoice(f, v[f])
                            ELSE RequestConfig_new("https://x.com")[f]]
            /\ env = [n \in EnvNames |->
                            IF n \in S THEN EnvChoice(n, v[n]) ELSE NotPresent]

InitResolve ==
    /\ InputsInit(ResolveFields, EnvNames, MaxResolveInputs)
    /\ resolved = [f \in ResolveFields |-> << >>]
    /\ ResolveIdle

\* What the caller holds after a call that returned r.
Returned(seen, r) == IF seen = << >> THEN <<r>> ELSE <<seen[1], r>>

CallResolveUsername_Consuming ==
    /\ resolved' = [resolved EXCEPT
                      !.username = Returned(@, resolve_username(config, env))]
    /\ env' = [env EXCEPT !["RUSTCURL_USER"] = NotPresent]
    /\ UNCHANGED <<mainVars, config, argVars, requestVars>>

CallResolveUsername ==
    /\ resolved' = [resolved EXCEPT
                      !.username = Returned(@, resolve_username(config, env))]
    /\ UNCHANGED <<mainVars, config, env, argVars, requestVars>>

CallResolvePassword ==
    /\ resolved' = [resolved EXCEPT
                      !.password = Returned(@, resolve_password(config, env))]
    /\ UNCHANGED <<mainVars, config, env, argVars, requestVars>>

CallResolveProxy ==
    /\ resolved' = [resolved EXCEPT
                      !.proxy = Returned(@, resolve_proxy(config, env))]
    /\ UNCHANGED <<mainVars, config, env, argVars, requestVars>>

CallResolveNoproxy ==
    /\ resolved' = [resolved EXCEPT
                      !.noproxy = Returned(@, resolve_noproxy(config, env))]
    /\ UNCHANGED <<mainVars, config, env, argVars, requestVars>>

NextResolve ==
    \/ CallResolveUsername
    \/ CallResolvePassword
    \/ CallResolveProxy
    \/ CallResolveNoproxy

SpecResolve == InitResolve /\ [][NextResolve]_vars

----------------------------------------------------------------------------
(* SpecArgs: parse_args run on one argument list: the entry check, one     *)
(* step per iteration of the scan loop, then the tail that builds the      *)
(* descriptor.  parsed.res is the Result returned, None while it runs.     *)

MaxArgs == 6

\* The argument lists of at most MaxArgs tokens drawn from `tokens`.
ArgLists(tokens) == UNION {[1..n -> tokens] : n \in 0..MaxArgs}

\* -X, -d and -I, a method name in lower case (also used as data) and a URL.
MethodTokens == {"-X", "-d", "-I", "put", "https://x.com"}

ArgsIdle ==
    /\ config = RequestConfig_new("") /\ env = EmptyEnv
    /\ resolved = [f \in ResolveFields |-> << >>]
    /\ RequestIdle

InitArgs ==
    /\ args \in ArgLists(MethodTokens)
    /\ i = 0
    /\ locals = parse_args_locals
    /\ parsed = [state |-> "called", res |-> None]
    /\ ArgsIdle

\* args.is_empty() and the `let mut` declarations.
ParseArgsEnter ==
    /\ parsed.state = "called"
    /\ IF args = << >>
       THEN parsed' = [state |-> "err", res |-> Some(Err("no arguments provided"))]
       ELSE parsed' = [state |-> "scanning", res |-> None]
    /\ i' = 0
    /\ locals' = parse_args_locals
    /\ UNCHANGED <<mainVars, args, config, env, resolveVars, requestVars>>

\* One iteration of `while i < args.len()`.
ParseArgsScan ==
    /\ parsed.state = "scanning"
    /\ i < Len(args)
    /\ LET r == scan_token(locals, args, i)
       IN  /\ locals' = r.locals
           /\ i' = r.i
           /\ parsed' = CASE r.step = "continue" -> parsed
                          [] r.step = "err" -> [state |-> "err", res |-> Some(Err(r.err))]
                          [] r.step = "exit" -> [state |-> "exit", res |-> None]
    /\ UNCHANGED <<mainVars, args, config, env, resolveVars, requestVars>>

\* The loop has ended: the tail of parse_args.
ParseArgsBuild ==
    /\ parsed.state = "scanning"
    /\ i >= Len(args)
    /\ parsed' = [state |-> IF build_config(locals).ok THEN "ok" ELSE "err",
                  res |-> Some(build_config(locals))]
    /\ UNCHANGED <<mainVars, args, i, locals, config, env, resolveVars, requestVars>>

NextArgs ==
    \/ ParseArgsEnter
    \/ ParseArgsScan
    \/ ParseArgsBuild

SpecArgs == InitArgs /\ [][NextArgs]_vars

----------------------------------------------------------------------------
(* SpecCommandLine: parse_args run as in SpecArgs on the argument lists    *)
(* that differ in what each token is taken for, then resolve_password      *)
(* called on the descriptor it returned.                                   *)

MaxLineArgs == 5

ArgListsUpTo(tokens, n) == UNION {[1..k -> tokens] : k \in 0..n}

\* The numeric options with values that parse, that are out of the range of
\* u32, and that are no number; -o and -H given several times; -u and
\* --proxy-user with and without a colon in the value; a value-taking
\* option before a flag, an unknown option and --help.
NumberTokens == {"--max-redirs", "--max-time", "5", "4294967296", "abc"}
RepeatTokens == {"-o", "-H", "a.com", "b.com"}
UserTokens == {"-u", "--proxy-user", "alice", "bob:"}
OptionTokens == {"-o", "-s", "--bogus", "--help", "x.com"}

TokenSets == {NumberTokens, RepeatTokens, UserTokens, OptionTokens}

\* RUSTCURL_PASSWORD is set or not when credentials are given.
LineEnvs(tokens) ==
    IF tokens = UserTokens
    THEN {EmptyEnv,
          [EmptyEnv EXCEPT !["RUSTCURL_PASSWORD"] =
                              Present(EnvText("RUSTCURL_PASSWORD"))]}
    ELSE {EmptyEnv}

InitCommandLine ==
    /\ \E tokens \in TokenSets :
          /\ args \in ArgListsUpTo(tokens, MaxLineArgs)
          /\ env \in LineEnvs(tokens)
    /\ i = 0
    /\ locals = parse_args_locals
    /\ parsed = [state |-> "called", res |-> None]
    /\ config = RequestConfig_new("")
    /\ resolved = [f \in ResolveFields |-> << >>]
    /\ RequestIdle

\* resolve_password(&config) on the descriptor parse_args returned.
ResolveParsedPassword ==
    /\ parsed.state = "ok"
    /\ resolved' = [resolved EXCEPT
                      !.password =
                          Returned(@, resolve_password(unwrap(unwrap(parsed.res).val), env))]
    /\ UNCHANGED <<mainVars, config, env, argVars, requestVars>>

NextCommandLine ==
    \/ ParseArgsEnter
    \/ ParseArgsScan
    \/ ParseArgsBuild
    \/ ResolveParsedPassword

SpecCommandLine == InitCommandLine /\ [][NextCommandLine]_vars

----------------------------------------------------------------------------
(* SpecCredentials: parse_credentials called on one text.  args holds the  *)
(* text, parsed.res the pair returned.                                     *)

MaxCredentialLen == 4

CredentialChars == {"a", "b", ":"}

\* The texts of at most n characters.
RECURSIVE Texts(_, _)
Texts(chars, n) ==
    IF n = 0 THEN {""}
    ELSE Texts(chars, n - 1) \cup {t \o c : t \in Texts(chars, n - 1), c \in chars}

InitCredentials ==
    /\ args \in {<<t>> : t \in Texts(CredentialChars, MaxCredentialLen)}
    /\ i = 0
    /\ locals = parse_args_locals
    /\ parsed = [state |-> "called", res |-> None]
    /\ ArgsIdle

\* let (u, p) = parse_credentials(val);
CallParseCredentials ==
    /\ parsed.state = "called"
    /\ Len(args) = 1
    /\ parsed' = [state |-> "returned", res |-> Some(parse_credentials(args[1]))]
    /\ UNCHANGED <<mainVars, args, i, locals, config, env, resolveVars, requestVars>>

NextCredentials == CallParseCredentials

SpecCredentials == InitCredentials /\ [][NextCredentials]_vars

----------------------------------------------------------------------------
(* SpecBuilder: RequestConfig::new(url) followed by setter calls, any      *)
(* setters in any order.  calls holds the calls made.                      *)

MaxCalls == 2

\* The fields with a setter: every field but url.
SetterFields == DOMAIN RequestConfig_new("") \ {"url"}

VecFields == {"headers", "resolve"}

\* The argument of the k-th call when it is a call of `setter`: true then
\* false then true for a bool, POST then a custom verb for the method, the
\* k-th letter for the others, so that the calls are told apart.
SetterArg(setter, k) ==
    IF setter \in BoolFields THEN k % 2 = 1
    ELSE IF setter = "method"
    THEN (IF k % 2 = 1 THEN Method_Post ELSE Method_Custom("PURGE"))
    ELSE SubSeq(LowerCase, k, k)

\* The setters with an Option setter that keeps a value already there.
call_setter_KeepsFirst(cfg, setter, arg) ==
    IF setter \in BoolFields \cup {"method"} THEN set_field(cfg, setter, arg)
    ELSE IF setter \in VecFields THEN push_field(cfg, setter, arg)
    ELSE IF is_some(cfg[setter]) THEN cfg
    ELSE set_some(cfg, setter, arg)

\* config.<setter>(arg)
call_setter(cfg, setter, arg) ==
    IF setter \in BoolFields \cup {"method"} THEN set_field(cfg, setter, arg)
    ELSE IF setter \in VecFields THEN push_field(cfg, setter, arg)
    ELSE set_some(cfg, setter, arg)

InitBuilder ==
    /\ config \in {RequestConfig_new("https://x.com"), RequestConfig_new("")}
    /\ env = EmptyEnv
    /\ resolved = [f \in ResolveFields |-> << >>]
    /\ args = IdleArgs /\ i = 0 /\ locals = IdleLocals /\ parsed = IdleParsed
    /\ RequestIdle

CallSetter ==
    /\ Len(calls) < MaxCalls
    /\ \E setter \in SetterFields :
          LET arg == SetterArg(setter, Len(calls) + 1)
          IN  /\ config' = call_setter(config, setter, arg)
              /\ calls' = Append(calls, <<setter, arg>>)
    /\ UNCHANGED <<hinted, stdout, stderr, exit_code,
                   env, resolveVars, argVars, requestVars>>

NextBuilder == CallSetter

SpecBuilder == InitBuilder /\ [][NextBuilder]_vars

----------------------------------------------------------------------------
(* SpecRequest: one call of perform_request on one descriptor in one       *)
(* environment, by one of the two backends.  pc is the position in the     *)
(* function body; every `?` of the body is a way to the position "failed", *)
(* where the call has returned the error.                                  *)

MaxRequestInputs == 3

Backends == {"curl", "reqwest"}

\* The descriptor fields and the environment variables the request draws.
RequestFields ==
    {"negotiate", "ntlm", "username", "password",
     "proxy", "noproxy", "proxy_user", "proxy_password",
     "proxy_negotiate", "proxy_ntlm", "output", "show_timing"}

RequestEnvNames == {"RUSTCURL_USER", "RUSTCURL_PASSWORD", "HTTPS_PROXY", "NO_PROXY"}

\* perform_request is entered by one of the backends.
RequestStart ==
    /\ pc = "start"
    /\ easy = Easy_new
    /\ client = ClientBuilder_new
    /\ outcome = NoOutcome
    /\ wire = NoReply
    /\ sent = 0
    /\ fs \in (IF is_some(config.output) THEN {None, Some("old")} ELSE {None})
    /\ resolved = [f \in ResolveFields |-> << >>]
    /\ args = IdleArgs /\ i = 0 /\ locals = IdleLocals /\ parsed = IdleParsed
    /\ MainIdle

InitRequest ==
    /\ InputsInit(RequestFields, RequestEnvNames, MaxRequestInputs)
    /\ backend \in Backends
    /\ RequestStart

\* The positions of the libcurl backend at which options are being set.
CurlSetup == {"start", "method", "auth", "headers", "options", "resolve"}

\* Easy::new(); easy.url(..)?; easy.follow_location(true)?;
CurlInit ==
    /\ backend = "curl" /\ pc = "start"
    /\ easy' = easy_init(config)
    /\ pc' = "method"
    /\ UNCHANGED <<mainVars, config, env, resolveVars, argVars, backend, client, outcome, wire, sent, fs>>

\* apply_method(&mut easy, config)?;
CurlApplyMethod ==
    /\ backend = "curl" /\ pc = "method"
    /\ easy' = apply_method(easy, config)
    /\ pc' = "auth"
    /\ UNCHANGED <<mainVars, config, env, resolveVars, argVars, backend, client, outcome, wire, sent, fs>>

\* apply_auth(&mut easy, config)?;
CurlApplyAuth ==
    /\ backend = "curl" /\ pc = "auth"
    /\ easy' = apply_auth(easy, config, env)
    /\ pc' = "headers"
    /\ UNCHANGED <<mainVars, config, env, resolveVars, argVars, backend, client, outcome, wire, sent, fs>>

\* build_headers, easy.http_headers, post_field_size, post_fields_copy
CurlApplyHeaders ==
    /\ backend = "curl" /\ pc = "headers"
    /\ easy' = apply_headers_and_body(easy, config)
    /\ pc' = "options"
    /\ UNCHANGED <<mainVars, config, env, resolveVars, argVars, backend, client, outcome, wire, sent, fs>>

\* apply_options(&mut easy, config)?;
CurlApplyOptions ==
    /\ backend = "curl" /\ pc = "options"
    /\ easy' = apply_options(easy, config, env)
    /\ pc' = "resolve"
    /\ UNCHANGED <<mainVars, config, env, resolveVars, argVars, backend, client, outcome, wire, sent, fs>>

\* apply_resolve(&mut easy, config)?;
CurlApplyResolve ==
    /\ backend = "curl" /\ pc = "resolve"
    /\ easy' = apply_resolve(easy, config)
    /\ pc' = "transfer"
    /\ UNCHANGED <<mainVars, config, env, resolveVars, argVars, backend, client, outcome, wire, sent, fs>>

\* Any of the `?` before the transfer returns a curl::Error.
CurlSetupFails ==
    /\ backend = "curl" /\ pc \in CurlSetup
    /\ outcome' = RequestError("Curl")
    /\ pc' = "failed"
    /\ UNCHANGED <<mainVars, config, env, resolveVars, argVars, backend, easy, client, wire, sent, fs>>

\* Errors transfer.perform() returns: one that carries a hint, one that
\* does not.
TransferErrors ==
    {ErrorOf("Curl", "COULDNT_RESOLVE_HOST", "[6] Couldn't resolve host name"),
     ErrorOf("Curl", "OTHER", "[28] Timeout was reached")}

\* The transfer started a second time when the first one fails.
CurlTransfer_Retrying ==
    /\ backend = "curl" /\ pc = "transfer"
    /\ sent' = sent + 1
    /\ \E reply \in ServerReplies :
          \/ /\ wire' = reply
             /\ pc' = "finish"
             /\ outcome' = outcome
          \/ /\ wire' = NoReply
             /\ pc' = IF sent = 0 THEN "transfer" ELSE "failed"
             /\ outcome' = IF sent = 0 THEN outcome ELSE RequestError("Curl")
    /\ UNCHANGED <<mainVars, config, env, resolveVars, argVars, backend, easy, client, fs>>

\* The transfer with the body written to the output path while it arrives.
CurlTransfer_Streaming ==
    /\ backend = "curl" /\ pc = "transfer"
    /\ sent' = sent + 1
    /\ \E reply \in ServerReplies :
          \/ /\ wire' = reply
             /\ pc' = "finish"
             /\ outcome' = outcome
             /\ fs' = IF is_some(config.output)
                      THEN Some(write_function("", reply.chunks)) ELSE fs
          \/ /\ wire' = NoReply
             /\ pc' = "failed"
             /\ outcome' = RequestError("Curl")
             /\ fs' = IF is_some(config.output) THEN Some("") ELSE fs
    /\ UNCHANGED <<mainVars, config, env, resolveVars, argVars, backend, easy, client>>

\* transfer.perform()?: the callbacks receive the reply and perform returns
\* Ok, or perform returns a curl::Error.
CurlTransfer ==
    /\ backend = "curl" /\ pc = "transfer"
    /\ sent' = sent + 1
    /\ \E reply \in ServerReplies :
          \/ /\ wire' = reply
             /\ pc' = "finish"
             /\ outcome' = outcome
          \/ /\ wire' = NoReply
             /\ pc' = "failed"
             /\ outcome' \in TransferErrors
    /\ UNCHANGED <<mainVars, config, env, resolveVars, argVars, backend, easy, client, fs>>

\* What fs::write can leave at the path when it returns an error: what was
\* there, or the file created or truncated and written in part.
failed_write(old, body) == {old, Some("")}

\* easy.response_code()?, the timing, the output file, Ok(Response {..}).
CurlFinish ==
    /\ backend = "curl" /\ pc = "finish"
    /\ \/ /\ outcome' = RequestError("Curl")
          /\ pc' = "failed"
          /\ fs' = fs
       \/ /\ is_some(config.output)
          /\ outcome' = RequestError("Io")
          /\ pc' = "failed"
          /\ fs' \in failed_write(fs, write_function("", wire.chunks))
       \/ /\ outcome' = OkResponse(curl_response(config, wire))
          /\ pc' = "done"
          /\ fs' = IF is_some(config.output)
                   THEN Some(write_function("", wire.chunks))
                   ELSE fs
    /\ UNCHANGED <<mainVars, config, env, resolveVars, argVars, backend, easy, client, wire, sent>>

\* build_client up to builder.proxy(proxy), or one of its errors.
ReqwestBuildClient ==
    /\ backend = "reqwest" /\ pc = "start"
    /\ \/ /\ client' = build_client_head(config, env)
          /\ pc' = "client_tail"
          /\ outcome' = outcome
       \/ \E e \in build_client_head_failures(config, env) :
             /\ client' = client
             /\ pc' = "failed"
             /\ outcome' = e
    /\ UNCHANGED <<mainVars, config, env, resolveVars, argVars, backend, easy, wire, sent, fs>>

\* The rest of build_client: Ok(builder.build()?), and
\* `let client = build_client(config)?` in perform_request.
ReqwestFinishClient ==
    /\ backend = "reqwest" /\ pc = "client_tail"
    /\ \/ /\ client' = build_client_tail(client, config, env)
          /\ pc' = "request"
          /\ outcome' = outcome
       \/ /\ client' = client
          /\ pc' = "failed"
          /\ outcome' = RequestError("Http")
    /\ UNCHANGED <<mainVars, config, env, resolveVars, argVars, backend, easy, wire, sent, fs>>

\* The request builder: method, headers, bearer token, body.
ReqwestBuildRequest ==
    /\ backend = "reqwest" /\ pc = "request"
    /\ IF build_request(config).ok
       THEN /\ client' = [client EXCEPT !.request = build_request(config).val]
            /\ pc' = "send"
            /\ outcome' = outcome
       ELSE /\ client' = client
            /\ pc' = "failed"
            /\ outcome' = ErrorOf(build_request(config).err, "", "Invalid method")
    /\ UNCHANGED <<mainVars, config, env, resolveVars, argVars, backend, easy, wire, sent, fs>>

\* let response = request_builder.send()?;
ReqwestSend ==
    /\ backend = "reqwest" /\ pc = "send"
    /\ sent' = sent + 1
    /\ \E reply \in ServerReplies :
          \/ /\ wire' = reply
             /\ pc' = "finish"
             /\ outcome' = outcome
          \/ /\ wire' = NoReply
             /\ pc' = "failed"
             /\ outcome' = RequestError("Http")
    /\ UNCHANGED <<mainVars, config, env, resolveVars, argVars, backend, easy, client, fs>>

\* The status, the headers, response.bytes()?, Ok(Response {..}).
ReqwestFinish ==
    /\ backend = "reqwest" /\ pc = "finish"
    /\ \/ /\ outcome' = RequestError("Http")
          /\ pc' = "failed"
       \/ /\ outcome' = OkResponse(reqwest_response(config, wire))
          /\ pc' = "done"
    /\ UNCHANGED <<mainVars, config, env, resolveVars, argVars, backend, easy, client, wire, sent, fs>>

NextRequest ==
    \/ CurlInit
    \/ CurlApplyMethod
    \/ CurlApplyAuth
    \/ CurlApplyHeaders
    \/ CurlApplyOptions
    \/ CurlApplyResolve
    \/ CurlSetupFails
    \/ CurlTransfer
    \/ CurlFinish
    \/ ReqwestBuildClient
    \/ ReqwestFinishClient
    \/ ReqwestBuildRequest
    \/ ReqwestSend
    \/ ReqwestFinish

SpecRequest == InitRequest /\ [][NextRequest]_vars

----------------------------------------------------------------------------
(* SpecTransfer: perform_request as in SpecRequest, on the descriptors     *)
(* that differ in what is sent and in what is done with the reply: the     *)
(* headers, the bearer token, the body data, the output path, the timing.  *)

MaxTransferInputs == 3

TransferFields == {"headers", "bearer", "data", "output", "show_timing"}

InitTransfer ==
    /\ InputsInit(TransferFields, {}, MaxTransferInputs)
    /\ backend \in Backends
    /\ RequestStart

SpecTransfer == InitTransfer /\ [][NextRequest]_vars

----------------------------------------------------------------------------
(* SpecMethod: perform_request as in SpecRequest, on the descriptors that  *)
(* differ in the method, the head-only flag and the proxy.                 *)

\* The seven variants, a custom verb that is an HTTP token and one that is
\* none.
MethodChoices ==
    {Method_Get, Method_Post, Method_Put, Method_Delete, Method_Head,
     Method_Patch, Method_Options, Method_Custom("PURGE"), Method_Custom("BAD VERB")}

InitMethod ==
    /\ \E m \in MethodChoices, h \in BOOLEAN, p \in {None, Some("cfg:proxy")} :
          config = [RequestConfig_new("https://x.com") EXCEPT
                       !.method = m, !.head_only = h, !.proxy = p]
    /\ env = EmptyEnv
    /\ backend \in Backends
    /\ RequestStart

SpecMethod == InitMethod /\ [][NextRequest]_vars

----------------------------------------------------------------------------
(* SpecMain: main from the call of curl::perform_request on: the libcurl   *)
(* backend runs as in SpecRequest, then main prints the response or the    *)
(* error and the process ends.                                             *)

\* u32 as Display prints it.
RECURSIVE to_string(_)
to_string(n) ==
    IF n < 10 THEN SubSeq(Digits, n + 1, n + 1)
    ELSE to_string(n \div 10) \o SubSeq(Digits, (n % 10) + 1, (n % 10) + 1)

\* {:>w}: s right-aligned in w columns.
RECURSIVE pad_left(_, _)
pad_left(s, w) == IF Len(s) >= w THEN s ELSE pad_left(" " \o s, w)

\* {:>8.3}ms of a duration of a whole number of milliseconds.
fmt_ms(n) == pad_left(to_string(n) \o ".000", 8) \o "ms"

\* impl fmt::Display for Timing
display_timing(t) ==
    "Timing:\n"
        \o "  DNS lookup:    " \o fmt_ms(t.dns) \o "\n"
        \o "  Connect:       " \o fmt_ms(t.connect) \o "\n"
        \o "  TLS handshake: " \o fmt_ms(t.tls) \o "\n"
        \o "  First byte:    " \o fmt_ms(t.starttransfer) \o "\n"
        \o "  Redirect:      " \o fmt_ms(t.redirect) \o "\n"
        \o "  Total:         " \o fmt_ms(t.total)

\* for header in &response.headers { println!("{header}") }
RECURSIVE header_lines(_)
header_lines(hs) ==
    IF hs = << >> THEN "" ELSE Head(hs) \o "\n" \o header_lines(Tail(hs))

\* Response::body_string of a body that is valid UTF-8.
body_string(r) == r.body

\* impl fmt::Display for Response
display_response(r) ==
    "Status: " \o to_string(r.status_code) \o "\n" \o "\n"
        \o header_lines(r.headers) \o "\n"
        \o body_string(r)
        \o (IF is_some(r.timing)
            THEN "\n" \o "\n" \o display_timing(unwrap(r.timing)) ELSE "")

\* The Ok arm of main: what it prints to the standard output.
main_ok_output(cfg, r) ==
    LET status == "Status: " \o to_string(r.status_code) \o "\n" \o "\n"
                      \o header_lines(r.headers)
        timing == IF is_some(r.timing)
                  THEN "\n" \o display_timing(unwrap(r.timing)) ELSE ""
    IN  IF cfg.silent
        THEN IF is_none(cfg.output) THEN body_string(r) ELSE ""
        ELSE IF cfg.head_only THEN status \o timing
        ELSE IF is_some(cfg.output)
        THEN status \o "\n" \o "Body written to " \o unwrap(cfg.output) \o "\n"
                    \o timing
        ELSE display_response(r)

MaxMainInputs == 3

MainFields == {"silent", "head_only", "output", "show_timing"}

InitMain ==
    /\ InputsInit(MainFields, {}, MaxMainInputs)
    /\ backend = "curl"
    /\ RequestStart

\* Ok(response) => { .. }, and main returns.
MainPrintsResponse ==
    /\ pc = "done" /\ outcome.kind = "ok"
    /\ stdout' = stdout \o main_ok_output(config, unwrap(outcome.response))
    /\ exit_code' = Some(0)
    /\ pc' = "exited"
    /\ UNCHANGED <<config, env, resolveVars, argVars, backend, easy, client,
                   outcome, wire, sent, fs, hinted, stderr, calls>>

\* Err(e) => { eprintln!("Request failed: {e}"); std::process::exit(1); }
MainRequestFailed ==
    /\ pc = "failed" /\ outcome.kind = "err"
    /\ stderr' = stderr \o "Request failed: " \o display(outcome) \o "\n"
    /\ exit_code' = Some(1)
    /\ pc' = "exited"
    /\ UNCHANGED <<config, env, resolveVars, argVars, backend, easy, client,
                   outcome, wire, sent, fs, hinted, stdout, calls>>

NextMain ==
    \/ CurlInit
    \/ CurlApplyMethod
    \/ CurlApplyAuth
    \/ CurlApplyHeaders
    \/ CurlApplyOptions
    \/ CurlApplyResolve
    \/ CurlSetupFails
    \/ CurlTransfer
    \/ CurlFinish
    \/ MainPrintsResponse
    \/ MainRequestFailed

SpecMain == InitMain /\ [][NextMain]_vars

----------------------------------------------------------------------------
(* SpecHint: RequestError::hint called, any number of times, on one error. *)
(* hinted holds what it returned: nothing before the first call, then the  *)
(* result of the first call and, from the second on, that of the latest.   *)

\* The conditions libcurl reports that hint tests, and one it does not.
ErrorCodes ==
    {"COULDNT_RESOLVE_HOST", "COULDNT_RESOLVE_PROXY", "SSL_CONNECT_ERROR",
     "PEER_FAILED_VERIFICATION", "OTHER"}

\* Message texts: with neither word, with one, with both, and with near
\* misses of each.
ErrorTexts ==
    {"Timeout was reached",
     "The revocation function was unable to check revocation",
     "CONNECT tunnel failed, response 407",
     "proxy answered 407 during the revocation check",
     "Revocation of the certificate",
     "received 40 7 bytes"}

Errors ==
    {ErrorOf("Curl", c, m) : c \in ErrorCodes, m \in ErrorTexts}
        \cup {ErrorOf(v, "", m) : v \in {"Io", "Config", "Http"}, m \in ErrorTexts}

InitHint ==
    /\ outcome \in Errors
    /\ hinted = << >> /\ stdout = "" /\ stderr = "" /\ exit_code = None
    /\ calls = << >>
    /\ config = RequestConfig_new("") /\ env = EmptyEnv
    /\ resolved = [f \in ResolveFields |-> << >>]
    /\ args = IdleArgs /\ i = 0 /\ locals = IdleLocals /\ parsed = IdleParsed
    /\ backend = "none" /\ pc = "idle" /\ easy = IdleEasy /\ client = IdleClient
    /\ wire = NoReply /\ sent = 0 /\ fs = None

\* err.hint()
CallHint ==
    /\ outcome.kind = "err"
    /\ pc = "idle"
    /\ hinted' = Returned(hinted, hint(outcome))
    /\ UNCHANGED <<config, env, resolveVars, argVars, requestVars,
                   stdout, stderr, exit_code, calls>>

NextHint == CallHint

SpecHint == InitHint /\ [][NextHint]_vars

----------------------------------------------------------------------------
(* Claims about the resolution policy, checked under SpecResolve.          *)

\* C1: when username, password, proxy or noproxy is explicitly set on the
\* descriptor, the resolver returns exactly that value, whatever the
\* environment holds.
C1_ExplicitOverridesEnv ==
    \A f \in ResolveFields :
        is_some(config[f]) => \A k \in 1..Len(resolved[f]) : resolved[f][k] = config[f]

\* C1 witness: an explicit username was resolved while RUSTCURL_USER held
\* another text.
C1_Witness ==
    /\ is_some(config.username)
    /\ env["RUSTCURL_USER"].kind = "Ok"
    /\ Some(env["RUSTCURL_USER"].val) # config.username
    /\ resolved.username # << >>

ProxyOrder ==
    <<"HTTPS_PROXY", "HTTP_PROXY", "ALL_PROXY",
      "https_proxy", "http_proxy", "all_proxy">>

NoProxyOrder == <<"NO_PROXY", "no_proxy">>

\* The value of the first variable of `order`, from position k on, that is
\* one of `hits`; None when there is none.
RECURSIVE FirstHit(_, _, _, _)
FirstHit(e, order, k, hits) ==
    IF k > Len(order) THEN None
    ELSE IF order[k] \in hits THEN Some(e[order[k]].val)
    ELSE FirstHit(e, order, k + 1, hits)

IsNonEmptyText(x) == x.kind = "Ok" /\ x.val # ""
IsText(x) == x.kind = "Ok"
IsSet(x) == x.kind # "NotPresent"
NonEmptyTextVars(e) == {n \in EnvNames : IsNonEmptyText(e[n])}
TextVars(e) == {n \in EnvNames : IsText(e[n])}

\* C2 (as claimed): with no proxy on the descriptor, resolve_proxy returns
\* the first non-empty value among HTTPS_PROXY, HTTP_PROXY, ALL_PROXY,
\* https_proxy, http_proxy, all_proxy, a variable set to the empty string
\* not being a hit, and none when no variable holds a non-empty value.
C2_FirstNonEmptyProxy ==
    is_none(config.proxy) =>
        \A k \in 1..Len(resolved.proxy) :
            resolved.proxy[k] = FirstHit(env, ProxyOrder, 1, NonEmptyTextVars(env))

\* What the code does: the first variable that is present and valid Unicode
\* wins, the empty string included.
C2_FirstTextProxy ==
    is_none(config.proxy) =>
        \A k \in 1..Len(resolved.proxy) :
            resolved.proxy[k] = FirstHit(env, ProxyOrder, 1, TextVars(env))

\* C3 (as claimed): an unset username / password resolves to RUSTCURL_USER /
\* RUSTCURL_PASSWORD if that variable is set and to none otherwise; an unset
\* noproxy resolves to NO_PROXY if set, else no_proxy if set, else none.
C3_Original_One(f, name) ==
    is_none(config[f]) =>
        \A k \in 1..Len(resolved[f]) :
            /\ IsSet(env[name]) => is_some(resolved[f][k])
            /\ IsText(env[name]) => resolved[f][k] = Some(env[name].val)
            /\ ~IsSet(env[name]) => resolved[f][k] = None

C3_EnvFallbackIfSet ==
    /\ C3_Original_One("username", "RUSTCURL_USER")
    /\ C3_Original_One("password", "RUSTCURL_PASSWORD")
    /\ is_none(config.noproxy) =>
        \A k \in 1..Len(resolved.noproxy) :
            /\ IsSet(env["NO_PROXY"]) =>
                  /\ is_some(resolved.noproxy[k])
                  /\ IsText(env["NO_PROXY"]) =>
                        resolved.noproxy[k] = Some(env["NO_PROXY"].val)
            /\ (~IsSet(env["NO_PROXY"]) /\ IsSet(env["no_proxy"])) =>
                  /\ is_some(resolved.noproxy[k])
                  /\ IsText(env["no_proxy"]) =>
                        resolved.noproxy[k] = Some(env["no_proxy"].val)
            /\ (~IsSet(env["NO_PROXY"]) /\ ~IsSet(env["no_proxy"])) =>
                  resolved.noproxy[k] = None

\* C3 (amended): an unset username / password resolves to RUSTCURL_USER /
\* RUSTCURL_PASSWORD if that variable is set to valid Unicode and to none
\* otherwise (so also when it is set to a value that is not valid Unicode),
\* each from its own variable alone; an unset noproxy resolves to NO_PROXY
\* if that is set to valid Unicode, else to no_proxy if that is, else none.
C3_EnvFallbackIfUnicode ==
    /\ is_none(config.username) =>
          \A k \in 1..Len(resolved.username) :
              resolved.username[k] =
                  IF IsText(env["RUSTCURL_USER"])
                  THEN Some(env["RUSTCURL_USER"].val) ELSE None
    /\ is_none(config.password) =>
          \A k \in 1..Len(resolved.password) :
              resolved.password[k] =
                  IF IsText(env["RUSTCURL_PASSWORD"])
                  THEN Some(env["RUSTCURL_PASSWORD"].val) ELSE None
    /\ is_none(config.noproxy) =>
          \A k \in 1..Len(resolved.noproxy) :
              resolved.noproxy[k] = FirstHit(env, NoProxyOrder, 1, TextVars(env))

\* C3 witness: with no username and no password on the descriptor and only
\* RUSTCURL_PASSWORD set, the password came from the environment and the
\* username resolved to none.
C3_Witness ==
    /\ is_none(config.username) /\ is_none(config.password)
    /\ env["RUSTCURL_USER"] = NotPresent
    /\ env["RUSTCURL_PASSWORD"] = Present(EnvText("RUSTCURL_PASSWORD"))
    /\ resolved.username = <<None>>
    /\ resolved.password = <<Some(EnvText("RUSTCURL_PASSWORD"))>>

\* C4: resolution is idempotent and free of side effects: every call leaves
\* the descriptor and the environment as they were, and a repeated call of
\* a resolver, whatever other resolvers ran in between, returns what its
\* first call returned.
C4_IdempotentNoSideEffect ==
    [][/\ config' = config
       /\ env' = env
       /\ \A f \in ResolveFields :
             Len(resolved'[f]) = 2 => resolved'[f][2] = resolved'[f][1]]_vars

\* C4 witness: all four resolvers have been called at least twice, and the
\* username came from the environment.
C4_Witness ==
    /\ \A f \in ResolveFields : Len(resolved[f]) = 2
    /\ is_none(config.username)
    /\ resolved.username[2] = Some(EnvText("RUSTCURL_USER"))

----------------------------------------------------------------------------
(* Claims about parse_args, checked under SpecArgs.                        *)

\* The descriptor parse_args returned.
ParsedConfig == unwrap(unwrap(parsed.res).val)

\* Whether the token at position k (1-based) is the value of the
\* value-taking option before it, as opposed to an option or the URL.
RECURSIVE IsValueAt(_, _)
IsValueAt(a, k) ==
    /\ k > 1
    /\ a[k - 1] \in DOMAIN ValueOptions
    /\ ~IsValueAt(a, k - 1)

\* The positions at which one of `names` stands as an option.
OptionAt(a, names) == {k \in 1..Len(a) : a[k] \in names /\ ~IsValueAt(a, k)}

FlagGiven(a, names) == OptionAt(a, names) # {}

\* The value given with the last occurrence of one of the options `names`.
LastValue(a, names) ==
    LET ks == {k \in OptionAt(a, names) : k < Len(a)}
    IN  IF ks = {} THEN None
        ELSE Some(a[(CHOOSE k \in ks : \A j \in ks : j <= k) + 1])

DataGiven == LastValue(args, {"-d", "--data"})
MethodGiven == LastValue(args, {"-X", "--request"})
HeadGiven == FlagGiven(args, {"-I", "--head"})

\* C5: when body data is given with -d and no method with -X, the method is
\* POST and the body is the given data; when -X is given the method is the
\* explicit one, wherever -X stands and whether or not -d or -I are there.
C5_DataDefaultsToPost ==
    parsed.state = "ok" =>
        /\ (is_some(DataGiven) /\ is_none(MethodGiven)) =>
              /\ ParsedConfig.method = Method_Post
              /\ ParsedConfig.data = DataGiven
        /\ is_some(MethodGiven) =>
              ParsedConfig.method = parse_method(unwrap(MethodGiven))

\* C5 witness: -d and -I without -X gave POST with the body kept.
C5_Witness ==
    /\ parsed.state = "ok"
    /\ args = <<"-I", "-d", "put", "https://x.com">>
    /\ ParsedConfig.method = Method_Post
    /\ ParsedConfig.data = Some("put")

\* C6 (as claimed): whenever -I is set and no method was chosen with -X the
\* method is HEAD, also when body data is given with -d.
C6_HeadWithoutExplicitMethod ==
    (parsed.state = "ok" /\ HeadGiven /\ is_none(MethodGiven)) =>
        ParsedConfig.method = Method_Head

\* C6 (amended): when -I is set and no method was chosen with -X, the method
\* is HEAD if no body data was given with -d; if body data was given it is
\* POST, and head_only is set all the same.
C6_HeadUnlessData ==
    (parsed.state = "ok" /\ HeadGiven /\ is_none(MethodGiven)) =>
        /\ ParsedConfig.head_only
        /\ is_none(DataGiven) => ParsedConfig.method = Method_Head
        /\ is_some(DataGiven) => ParsedConfig.method = Method_Post

\* C6 witness: -I alone gave HEAD.
C6_Witness ==
    /\ parsed.state = "ok"
    /\ HeadGiven /\ is_none(MethodGiven) /\ is_none(DataGiven)
    /\ ParsedConfig.method = Method_Head
    /\ ParsedConfig.head_only

----------------------------------------------------------------------------
(* Claims about authentication and the resolved values in the two          *)
(* backends, checked under SpecRequest.                                    *)

\* The libcurl backend has gone through apply_auth.
CurlAuthApplied ==
    /\ backend = "curl"
    /\ pc \in {"headers", "options", "resolve", "transfer", "finish", "done"}

\* The libcurl backend has gone through apply_options.
CurlOptionsApplied ==
    /\ backend = "curl"
    /\ pc \in {"resolve", "transfer", "finish", "done"}

\* The reqwest backend has built its client.
ReqwestClientBuilt ==
    /\ backend = "reqwest"
    /\ pc \in {"request", "send", "finish", "done"}

\* C7: in the libcurl backend the scheme is negotiate if the negotiate flag
\* is set, else NTLM if the ntlm flag is set, both with the resolved username
\* and password and the empty string for one that does not resolve; else
\* basic (no scheme option, a username) exactly when a username resolves,
\* with the password set only when one resolves.
C7_CurlAuthPrecedence ==
    CurlAuthApplied =>
        LET u == resolve_username(config, env)
            p == resolve_password(config, env)
        IN  IF config.negotiate \/ config.ntlm
            THEN /\ easy.http_auth =
                        Some(IF config.negotiate THEN "gssnegotiate" ELSE "ntlm")
                 /\ easy.username = Some(IF is_some(u) THEN unwrap(u) ELSE "")
                 /\ easy.password = Some(IF is_some(p) THEN unwrap(p) ELSE "")
            ELSE /\ easy.http_auth = None
                 /\ easy.username = u
                 /\ easy.password = IF is_some(u) THEN p ELSE None

\* NTLM asked for, the username coming from RUSTCURL_USER and no password
\* resolving.
C7_Witness ==
    /\ CurlAuthApplied
    /\ ~config.negotiate /\ config.ntlm
    /\ is_none(config.username)
    /\ easy.http_auth = Some("ntlm")
    /\ easy.username = Some(EnvText("RUSTCURL_USER"))
    /\ easy.password = Some("")

\* Some request authentication is configured on the reqwest client.
ReqwestAuthUsed == client.auth.kind # "none"

\* C8: in both backends the username and password used for request
\* authentication are resolve_username / resolve_password, and the proxy and
\* no-proxy settings are resolve_proxy / resolve_noproxy.
C8_ResolvedValuesApplied ==
    LET u == resolve_username(config, env)
        p == resolve_password(config, env)
    IN  /\ (CurlAuthApplied /\ (config.negotiate \/ config.ntlm \/ is_some(u))) =>
              /\ easy.username = Some(unwrap_or_default(u))
              /\ is_some(p) => easy.password = p
        /\ CurlOptionsApplied =>
              /\ easy.proxy = resolve_proxy(config, env)
              /\ easy.noproxy = resolve_noproxy(config, env)
        /\ (ReqwestClientBuilt /\ (config.negotiate \/ config.ntlm)
                /\ (is_some(u) \/ is_some(p))) =>
              /\ ReqwestAuthUsed
              /\ client.auth.username = unwrap_or_default(u)
              /\ client.auth.password = unwrap_or_default(p)
        /\ (ReqwestClientBuilt /\ is_some(resolve_proxy(config, env))) =>
              /\ Len(client.proxies) = 1
              /\ client.proxies[1].url = unwrap(resolve_proxy(config, env))
              /\ client.proxies[1].no_proxy = resolve_noproxy(config, env)

\* C9: with a username on the descriptor and neither negotiate nor ntlm, the
\* request of the reqwest backend carries the credentials.
C9_ReqwestKeepsBasicAuth ==
    (/\ ReqwestClientBuilt
     /\ is_some(config.username)
     /\ ~config.negotiate /\ ~config.ntlm) =>
        /\ ReqwestAuthUsed
        /\ client.auth.username = unwrap(config.username)

\* The authentication options of the handle.
AuthOf(e) == <<e.http_auth, e.username, e.password>>

\* C10: with negotiate and ntlm both set, both backends apply negotiate, and
\* what they configure is what they configure for the same descriptor with
\* ntlm cleared.
C10_NegotiateOverNtlmInBothBackends ==
    (config.negotiate /\ config.ntlm) =>
        LET cleared == [config EXCEPT !.ntlm = FALSE]
        IN  /\ CurlAuthApplied =>
                  /\ easy.http_auth = Some("gssnegotiate")
                  /\ AuthOf(easy) = AuthOf(apply_auth(Easy_new, cleared, env))
            /\ (backend = "curl" /\ pc \in {"transfer", "finish", "done"}) =>
                  easy = curl_setup(cleared, env)
            /\ ReqwestClientBuilt =>
                  /\ client.auth.kind \in {"negotiate", "negotiate_with_credentials"}
                  /\ [client EXCEPT !.request = None] = build_client(cleared, env)
            /\ (backend = "reqwest" /\ pc \in {"send", "finish", "done"}) =>
                  client.request = build_request(cleared).val

\* Both flags set and a username given: the handle is ready for the transfer
\* with negotiate and that username.
C10_Witness ==
    /\ config.negotiate /\ config.ntlm
    /\ is_some(config.username)
    /\ backend = "curl" /\ pc = "transfer"
    /\ easy.http_auth = Some("gssnegotiate")
    /\ easy.username = config.username

----------------------------------------------------------------------------
(* Claims about what is sent and what is done with the reply, checked      *)
(* under SpecTransfer.                                                     *)

\* The libcurl backend has handed the header list to the handle.
CurlHeadersApplied ==
    /\ backend = "curl"
    /\ pc \in {"options", "resolve", "transfer", "finish", "done"}

BearerEntry(token) == "Authorization: Bearer " \o token

\* C11: the header list of the libcurl backend is the explicit headers of the
\* descriptor, in their order and with their duplicates, followed by the
\* bearer entry exactly when a token is set.
C11_HeadersThenBearer ==
    CurlHeadersApplied =>
        /\ is_some(easy.http_headers)
        /\ LET sent_list == unwrap(easy.http_headers)
               n == Len(config.headers)
           IN  /\ Len(sent_list) = n + (IF is_some(config.bearer) THEN 1 ELSE 0)
               /\ \A k \in 1..n : sent_list[k] = config.headers[k]
               /\ is_some(config.bearer) =>
                      sent_list[n + 1] = BearerEntry(unwrap(config.bearer))

\* An explicit Authorization header and a bearer token: both are in the list,
\* the bearer entry last.
C11_Witness ==
    /\ CurlHeadersApplied /\ pc = "transfer"
    /\ config.headers = HeaderChoice(2)
    /\ config.bearer = Some("cfg:bearer")
    /\ unwrap(easy.http_headers) =
          <<"Accept: */*", "Authorization: Basic abc", "X-A: 1",
            "Authorization: Bearer cfg:bearer">>

\* C12: with an output path, the file at the path changes only in the step
\* that follows the transfer and the reading of the response code, i.e. in
\* the step that returns Ok or the io error of the write itself; every step
\* that ends the call in another way returns an error and leaves the file as
\* it was.
C12_OutputOnlyAfterSuccess ==
    [][is_some(config.output) =>
          /\ fs' # fs =>
                /\ pc = "finish"
                /\ pc' = "done" \/ outcome'.err = "Io"
          /\ pc' = "failed" => outcome'.kind = "err"]_vars

\* The transfer has failed with an output path set and a file there: the
\* call has returned the error and the file is as it was.
C12_Witness ==
    /\ is_some(config.output)
    /\ backend = "curl" /\ pc = "failed" /\ sent = 1 /\ wire = NoReply
    /\ outcome.kind = "err" /\ outcome.err = "Curl"
    /\ fs = Some("old")

\* perform_request has returned Ok(response).
ReturnedOk == pc = "done" /\ outcome.kind = "ok"

TheResponse == unwrap(outcome.response)

\* The bytes the transfer delivered, in the order delivered.
RECURSIVE ReceivedBody(_)
ReceivedBody(chunks) ==
    IF chunks = << >> THEN "" ELSE Head(chunks) \o ReceivedBody(Tail(chunks))

\* C13: in the libcurl backend, after a call that succeeded: with an output
\* path the file holds exactly the received body, the Response body is empty
\* and status, headers and timing are those of the same descriptor without
\* output path; without an output path the Response body is the received
\* body and there is no file.
C13_OutputFileOrBody ==
    (backend = "curl" /\ ReturnedOk) =>
        LET plain == curl_response([config EXCEPT !.output = None], wire)
        IN  /\ TheResponse.status_code = wire.code
            /\ TheResponse.status_code = plain.status_code
            /\ TheResponse.headers = plain.headers
            /\ TheResponse.timing = plain.timing
            /\ IF is_some(config.output)
               THEN /\ fs = Some(ReceivedBody(wire.chunks))
                    /\ TheResponse.body = ""
               ELSE /\ fs = None
                    /\ TheResponse.body = ReceivedBody(wire.chunks)

\* A body of two chunks written over the file, the Response empty-bodied and
\* with its timing.
C13_Witness ==
    /\ backend = "curl" /\ ReturnedOk
    /\ is_some(config.output) /\ config.show_timing
    /\ wire = PlainReply
    /\ fs = Some("<html></html>")
    /\ TheResponse.body = ""
    /\ is_some(TheResponse.timing)

\* C14: in the reqwest backend, after a call that succeeded with an output
\* path set, the body is in the file at the path and the Response body is
\* empty.
C14_ReqwestHonoursOutput ==
    (backend = "reqwest" /\ ReturnedOk /\ is_some(config.output)) =>
        /\ fs = Some(ReceivedBody(wire.chunks))
        /\ TheResponse.body = ""

\* C15: the Response of the libcurl backend has a timing record, the six
\* times of the handle, exactly when show_timing is set; the Response of the
\* reqwest backend has none, whatever show_timing is.
C15_TimingIffRequestedAndSupplied ==
    ReturnedOk =>
        /\ backend = "curl" =>
              /\ is_some(TheResponse.timing) <=> config.show_timing
              /\ config.show_timing => TheResponse.timing = Some(wire.times)
        /\ backend = "reqwest" => TheResponse.timing = None

\* The reqwest backend asked for the timing: it returns none.
C15_Witness ==
    /\ backend = "reqwest" /\ ReturnedOk
    /\ config.show_timing
    /\ TheResponse.timing = None

----------------------------------------------------------------------------
(* Claims about RequestError::hint, checked under SpecHint.                *)

\* The five conditions of the hint policy in their priority order, and the
\* hint of each.
HintConditions(e) ==
    <<e.code = "COULDNT_RESOLVE_HOST",
      e.code = "COULDNT_RESOLVE_PROXY",
      e.code \in {"SSL_CONNECT_ERROR", "PEER_FAILED_VERIFICATION"},
      contains(e.message, "revocation"),
      contains(e.message, "407")>>

HintTexts == <<HintDns, HintProxyDns, HintSsl, HintRevocation, HintProxyAuth>>

Matching(e) == {k \in 1..5 : HintConditions(e)[k]}

\* C16: hint returns the hint of the earliest condition a Curl error
\* matches, and none for a Curl error that matches no condition and for
\* every Io, Config and Http error.
C16_HintFirstMatch ==
    \A k \in 1..Len(hinted) :
        hinted[k] =
            IF outcome.err = "Curl" /\ Matching(outcome) # {}
            THEN Some(HintTexts[CHOOSE m \in Matching(outcome) :
                                    \A o \in Matching(outcome) : m <= o])
            ELSE None

\* A TLS connect error whose message names both the revocation check and
\* 407: the TLS hint is returned.
C16_Witness ==
    /\ hinted # << >>
    /\ outcome.err = "Curl"
    /\ Matching(outcome) = {3, 4, 5}
    /\ hinted[1] = Some(HintSsl)

----------------------------------------------------------------------------
(* Claims about the capability gaps of the reqwest backend, checked under  *)
(* SpecRequest.                                                            *)

\* build_client has returned an error.
ReqwestClientFailed ==
    /\ backend = "reqwest" /\ pc = "failed"
    /\ ~client.built

\* C17: in the reqwest backend with ntlm set and negotiate not set, the
\* client carries the username and password of the descriptor as credentials
\* when both are present and no authentication otherwise, and building the
\* client fails only in the ways it fails for the descriptor without ntlm
\* and credentials.
C17_ReqwestNtlmFallback ==
    (backend = "reqwest" /\ config.ntlm /\ ~config.negotiate) =>
        /\ ReqwestClientBuilt =>
              IF is_some(config.username) /\ is_some(config.password)
              THEN client.auth = [kind |-> "negotiate_with_credentials",
                                  username |-> unwrap(config.username),
                                  password |-> unwrap(config.password)]
              ELSE client.auth = ClientBuilder_new.auth
        /\ ReqwestClientFailed =>
              /\ outcome.err # "Config"
              /\ outcome.err \in
                    build_client_errors(
                        [config EXCEPT !.ntlm = FALSE, !.username = None,
                                       !.password = None], env)

\* NTLM asked for with a username and no password: the call has succeeded
\* with a client that has no authentication.
C17_Witness ==
    /\ backend = "reqwest" /\ ReturnedOk
    /\ config.ntlm /\ ~config.negotiate
    /\ is_some(config.username) /\ is_none(config.password)
    /\ client.auth.kind = "none"

\* The reqwest backend has handed its proxy to the builder and has not yet
\* looked at the no-proxy list.
ReqwestProxyApplied == backend = "reqwest" /\ pc = "client_tail"

----------------------------------------------------------------------------
(* Claims about the propagation of failures, checked under SpecTransfer.   *)

\* The positions of perform_request in the order of the function bodies.
StepOrder ==
    <<"start", "method", "auth", "headers", "options", "resolve",
      "client_tail", "request", "transfer", "send", "finish", "done", "failed">>

Rank(p) == CHOOSE k \in 1..Len(StepOrder) : StepOrder[k] = p

\* C19: one call starts the transfer at most once; every step moves forward
\* in the function body, so that no step is attempted again; a step that
\* fails ends the call with the error, and nothing follows.
C19_NeverRetries ==
    [][/\ sent' <= 1
       /\ Rank(pc') > Rank(pc)
       /\ pc # "failed"
       /\ outcome'.kind = "err" <=> pc' = "failed"]_vars

\* The send of the reqwest backend has failed: the call has ended with the
\* error after one transfer.
C19_Witness ==
    /\ backend = "reqwest" /\ pc = "failed"
    /\ sent = 1 /\ wire = NoReply
    /\ outcome.kind = "err" /\ outcome.err = "Http"

----------------------------------------------------------------------------
(* Claims about main, checked under SpecMain.                              *)

\* main has ended after perform_request returned an error.
ExitedOnError == pc = "exited" /\ outcome.kind = "err"

\* C20: when perform_request has returned an error, main has printed the
\* message of the error and, if the error has a hint, the hint, and the
\* process has ended with a status that is not zero.
C20_MainPrintsErrorAndHint ==
    ExitedOnError =>
        /\ contains(stderr, display(outcome))
        /\ is_some(hint(outcome)) => contains(stderr, unwrap(hint(outcome)))
        /\ is_some(exit_code) /\ unwrap(exit_code) # 0

----------------------------------------------------------------------------
(* Claims about the headers of the Response, checked under SpecTransfer.   *)

IsStatusLine(h) == starts_with(h, "HTTP/")

\* The header lines among the lines received, in the order received: the
\* lines that are valid UTF-8, not blank and not a status line, trimmed.
RECURSIVE HeaderLinesOf(_)
HeaderLinesOf(lines) ==
    IF lines = << >> THEN << >>
    ELSE (IF /\ Head(lines).utf8
             /\ trim(Head(lines).text) # ""
             /\ ~IsStatusLine(trim(Head(lines).text))
          THEN <<trim(Head(lines).text)>> ELSE << >>)
         \o HeaderLinesOf(Tail(lines))

\* C21: the headers of a Response the libcurl backend returns are the header
\* lines received, in the order received: no element is the status line of
\* the response or of an intermediate redirect response, and no element is
\* blank.
C21_HeadersWithoutStatusLine ==
    (backend = "curl" /\ ReturnedOk) =>
        /\ \A k \in 1..Len(TheResponse.headers) :
              /\ ~IsStatusLine(TheResponse.headers[k])
              /\ trim(TheResponse.headers[k]) # ""
        /\ TheResponse.headers = HeaderLinesOf(wire.lines)

----------------------------------------------------------------------------
(* Claims about what parse_args takes each token for, checked under        *)
(* SpecCommandLine.                                                        *)

HelpGiven(a) == FlagGiven(a, {"-h", "--help"})

\* The positions of the tokens that are no value of an option.
Standalone(a) == {k \in 1..Len(a) : ~IsValueAt(a, k)}

UnknownOptionGiven(a) ==
    \E k \in Standalone(a) :
        /\ starts_with(a[k], "-")
        /\ a[k] \notin (DOMAIN ValueOptions \cup DOMAIN FlagOptions \cup {"-h", "--help"})

ValueMissing(a) == a # << >> /\ OptionAt(a, DOMAIN ValueOptions) \ (1..(Len(a) - 1)) # {}

UrlGiven(a) == \E k \in Standalone(a) : ~starts_with(a[k], "-")

SecondsOptions == {"--connect-timeout", "--max-time"}
CountOptions == {"--max-redirs"}

\* A numeral: one or more decimal digits.
IsNumeral(s) ==
    s # "" /\ \A k \in 1..Len(s) : find_char(Digits, SubSeq(s, k, k)) # 0

\* The values given to the options `names` that do not satisfy `good`.
BadValueGiven(a, names, good(_)) ==
    \E k \in OptionAt(a, names) : k < Len(a) /\ ~good(a[k + 1])

\* C22 (as claimed): parse_args returns an error exactly for the argument
\* lists that are empty, have no URL, have an unknown option, end with a
\* value-taking option without its value, or give a value that is no number
\* to --connect-timeout, --max-time or --max-redirs; for every other list
\* without -h / --help it returns a descriptor.
C22_ErrorIffNonNumeric ==
    (parsed.state \in {"ok", "err"} /\ ~HelpGiven(args)) =>
        (parsed.state = "err" <=>
            \/ args = << >>
            \/ ~UrlGiven(args)
            \/ UnknownOptionGiven(args)
            \/ ValueMissing(args)
            \/ BadValueGiven(args, SecondsOptions \cup CountOptions, IsNumeral))

IsU64(s) == is_some(parse_unsigned(s, U64_MAX))
IsU32(s) == is_some(parse_unsigned(s, U32_MAX))

\* C22 (amended): as claimed, with the numeric options in error exactly when
\* the value does not parse as an unsigned integer of the type of the
\* option: u64 for --connect-timeout and --max-time, u32 for --max-redirs.
C22_ErrorIffUnparsable ==
    (parsed.state \in {"ok", "err"} /\ ~HelpGiven(args)) =>
        (parsed.state = "err" <=>
            \/ args = << >>
            \/ ~UrlGiven(args)
            \/ UnknownOptionGiven(args)
            \/ ValueMissing(args)
            \/ BadValueGiven(args, SecondsOptions, IsU64)
            \/ BadValueGiven(args, CountOptions, IsU32))

\* A number one above u32::MAX given to --max-redirs, and a URL: the error
\* of parse_u32.
C22_Witness ==
    /\ args = <<"--max-redirs", "4294967296", "abc">>
    /\ parsed.state = "err"
    /\ unwrap(parsed.res).err = "--max-redirs requires a positive integer"

----------------------------------------------------------------------------
(* Claims about parse_credentials, checked under SpecCredentials.          *)

CredentialsReturned == parsed.state = "returned"
TheUser == unwrap(parsed.res)[1]
ThePassword == unwrap(parsed.res)[2]

\* C23: parse_credentials splits at the first colon only: without a colon
\* the user is the whole input and there is no password; with one, the user
\* is the text before the first colon, so it has no colon itself, the
\* password is all that follows, be it empty or with further colons, and
\* user, colon and password put together are the input.
C23_SplitAtFirstColon ==
    CredentialsReturned =>
        IF ~contains(args[1], ":")
        THEN TheUser = args[1] /\ ThePassword = None
        ELSE /\ is_some(ThePassword)
             /\ ~contains(TheUser, ":")
             /\ TheUser \o ":" \o unwrap(ThePassword) = args[1]
             /\ TheUser = SubSeq(args[1], 1, find_char(args[1], ":") - 1)
             /\ unwrap(ThePassword) =
                    SubSeq(args[1], find_char(args[1], ":") + 1, Len(args[1]))

\* A password with colons of its own, after a one-letter user.
C23_Witness ==
    /\ CredentialsReturned
    /\ args = <<"a::b">>
    /\ TheUser = "a"
    /\ ThePassword = Some(":b")

----------------------------------------------------------------------------
(* Claims about the builder of RequestConfig, checked under SpecBuilder.   *)

\* The positions in calls of the calls of `setter`.
CallsOf(setter) == {k \in 1..Len(calls) : calls[k][1] = setter}

\* The arguments of the calls of `setter` from position k on, in call order.
RECURSIVE ArgsFrom(_, _)
ArgsFrom(setter, k) ==
    IF k > Len(calls) THEN << >>
    ELSE (IF calls[k][1] = setter THEN <<calls[k][2]>> ELSE << >>)
         \o ArgsFrom(setter, k + 1)

LastArg(setter) == calls[CHOOSE k \in CallsOf(setter) : \A j \in CallsOf(setter) : j <= k][2]

\* The documented defaults: GET, flags false, optionals none, lists empty.
DefaultOf(field) ==
    IF field = "method" THEN Method("Get", "GET")
    ELSE IF field \in BoolFields THEN FALSE
    ELSE IF field \in VecFields THEN << >>
    ELSE None

\* C24: after any sequence of setter calls, each single-valued field is the
\* argument of the last call of its setter, or its default when the setter
\* was never called; headers and resolve are the entries appended, in call
\* order; and each call leaves every field other than its own, url included,
\* as it was.
C24_SettersLastWinsAndFrame ==
    /\ [](\A f \in SetterFields :
            config[f] =
                IF f \in VecFields THEN ArgsFrom(f, 1)
                ELSE IF CallsOf(f) = {} THEN DefaultOf(f)
                ELSE IF f \in BoolFields \cup {"method"} THEN LastArg(f)
                ELSE Some(LastArg(f)))
    /\ [][\A f \in DOMAIN config :
            f # calls'[Len(calls')][1] => config'[f] = config[f]]_vars

\* username set twice: the second username is on the descriptor, the method
\* and the password are the defaults, the url is the one given to new.
C24_Witness ==
    /\ Len(calls) = 2
    /\ calls[1] = <<"username", "a">> /\ calls[2] = <<"username", "b">>
    /\ config.username = Some("b")
    /\ config.password = None
    /\ config.method = Method("Get", "GET")
    /\ config.url = "https://x.com"

----------------------------------------------------------------------------
(* Claims about the method and about malformed input, checked under        *)
(* SpecMethod.                                                             *)

\* The reqwest backend has returned the error of the call `call`.
ReqwestFailedIn(call) ==
    /\ backend = "reqwest" /\ pc = "failed"
    /\ outcome.kind = "err" /\ outcome.message = call

\* C25: in the reqwest backend a custom method that cannot be parsed and a
\* proxy URL the proxy constructor rejects are each returned as
\* RequestError::Config.
C25_MalformedInputIsConfigError ==
    /\ ReqwestFailedIn("Invalid method") => outcome.err = "Config"
    /\ ReqwestFailedIn("Proxy::all") => outcome.err = "Config"

\* The libcurl backend has gone through apply_method.
CurlMethodApplied ==
    /\ backend = "curl"
    /\ pc \in {"auth", "headers", "options", "resolve", "transfer", "finish", "done"}

\* The options of the handle by which the method is selected.
MethodOptions(e) == <<e.post, e.put, e.custom_request>>

\* C26: in the libcurl backend the transfer is set to no-body exactly when
\* head_only is set or the method is HEAD, whatever the method is; and the
\* options that select the method are those of the same descriptor without
\* head_only: POST and PUT by their own option, DELETE, PATCH, OPTIONS and a
\* custom verb by the custom request, GET and HEAD by none.
C26_HeadOnlyForcesNoBody ==
    CurlMethodApplied =>
        /\ easy.nobody =
              IF config.head_only \/ config.method.variant = "Head"
              THEN Some(TRUE) ELSE None
        /\ MethodOptions(easy) =
              MethodOptions(apply_method(easy_init(config),
                                         [config EXCEPT !.head_only = FALSE]))
        /\ easy.post = IF config.method.variant = "Post" THEN Some(TRUE) ELSE None
        /\ easy.put = IF config.method.variant = "Put" THEN Some(TRUE) ELSE None
        /\ easy.custom_request =
              IF config.method.variant \in {"Delete", "Patch", "Options", "Custom"}
              THEN Some(config.method.text) ELSE None

\* head_only with POST: the handle is ready for the transfer with the POST
\* option and no-body both set.
C26_Witness ==
    /\ backend = "curl" /\ pc = "transfer"
    /\ config.head_only /\ config.method.variant = "Post"
    /\ easy.post = Some(TRUE)
    /\ easy.nobody = Some(TRUE)

----------------------------------------------------------------------------
(* Claims about the no-proxy list in the two backends, checked under       *)
(* SpecRequest.                                                            *)

\* The host of the URL of the descriptors of SpecRequest.
RequestHost == "x.com"

\* Whether a no-proxy list names the host.
Listed(list, host) == list = "*" \/ contains(list, host)

\* The proxy the reqwest client sends a request to `host` through: the first
\* of its proxies that does not exempt the host, none when there is none.
ReqwestRoute(b, host) ==
    LET ks == {k \in 1..Len(b.proxies) :
                  ~(is_some(b.proxies[k].no_proxy)
                        /\ Listed(unwrap(b.proxies[k].no_proxy), host))}
    IN  IF ks = {} THEN None
        ELSE Some(b.proxies[CHOOSE k \in ks : \A j \in ks : k <= j].url)

\* The proxy libcurl sends a request to `host` through, from the options of
\* the handle.
CurlRoute(e, host) ==
    IF is_some(e.noproxy) /\ Listed(unwrap(e.noproxy), host) THEN None
    ELSE e.proxy

\* C27: in both backends, with a proxy and a no-proxy list both resolving, a
\* request to a host the list does not name goes through the resolved proxy.
C27_NoProxyExemptsOnlyListedHosts ==
    (/\ is_some(resolve_proxy(config, env))
     /\ is_some(resolve_noproxy(config, env))
     /\ ~Listed(unwrap(resolve_noproxy(config, env)), RequestHost)) =>
        /\ CurlOptionsApplied =>
              CurlRoute(easy, RequestHost) = resolve_proxy(config, env)
        /\ ReqwestClientBuilt =>
              ReqwestRoute(client, RequestHost) = resolve_proxy(config, env)

----------------------------------------------------------------------------
(* Claims about repeated options, checked under SpecCommandLine.           *)

\* The option names that set the local `local`, by the kind of the option.
NamesOf(local) == {tok \in DOMAIN ValueOptions : ValueOptions[tok].local = local}
FlagNamesOf(local) == {tok \in DOMAIN FlagOptions : FlagOptions[tok] = local}
LocalsOfKind(kinds) ==
    {ValueOptions[tok].local : tok \in {t \in DOMAIN ValueOptions : ValueOptions[t].kind \in kinds}}

\* The values given with the options `names` from position k on, in
\* command-line order.
RECURSIVE ValuesFrom(_, _, _)
ValuesFrom(a, names, k) ==
    IF k >= Len(a) THEN << >>
    ELSE (IF k \in OptionAt(a, names) THEN <<a[k + 1]>> ELSE << >>)
         \o ValuesFrom(a, names, k + 1)

\* The last token that is neither an option nor the value of one.
LastPositional(a) ==
    LET ks == {k \in Standalone(a) : ~starts_with(a[k], "-")}
    IN  a[CHOOSE k \in ks : \A j \in ks : j <= k]

\* C28: the descriptor holds, for the URL and for every single-valued
\* option, the value of the last occurrence, and none for an option not
\* given; for -H and --resolve every value, in command-line order; and a
\* flag is set exactly when it was given, wherever it stands.
C28_LastOccurrenceWins ==
    parsed.state = "ok" =>
        /\ ParsedConfig.url = LastPositional(args)
        /\ \A f \in LocalsOfKind({"text"}) :
              ParsedConfig[f] = LastValue(args, NamesOf(f))
        /\ \A f \in LocalsOfKind({"seconds"}) :
              ParsedConfig[f] =
                  IF is_none(LastValue(args, NamesOf(f))) THEN None
                  ELSE parse_unsigned(unwrap(LastValue(args, NamesOf(f))), U64_MAX)
        /\ \A f \in LocalsOfKind({"u32"}) :
              ParsedConfig[f] =
                  IF is_none(LastValue(args, NamesOf(f))) THEN None
                  ELSE parse_unsigned(unwrap(LastValue(args, NamesOf(f))), U32_MAX)
        /\ is_some(MethodGiven) =>
              ParsedConfig.method = parse_method(unwrap(MethodGiven))
        /\ \A f \in LocalsOfKind({"push"}) :
              ParsedConfig[f] = ValuesFrom(args, NamesOf(f), 1)
        /\ \A f \in BoolFields :
              ParsedConfig[f] = FlagGiven(args, FlagNamesOf(f))

\* -o given twice, then two positionals: the second output path and the
\* second positional are on the descriptor.
C28_Witness ==
    /\ parsed.state = "ok"
    /\ args = <<"-o", "a.com", "-o", "b.com", "a.com">>
    /\ ParsedConfig.output = Some("b.com")
    /\ ParsedConfig.url = "a.com"

----------------------------------------------------------------------------
(* Claims about the credentials of the command line, checked under         *)
(* SpecCommandLine.                                                        *)

\* The user and the password a -u / --proxy-user value stands for.
UserOf(v) == IF contains(v, ":") THEN SubSeq(v, 1, find_char(v, ":") - 1) ELSE v
PasswordOf(v) ==
    IF contains(v, ":") THEN Some(SubSeq(v, find_char(v, ":") + 1, Len(v))) ELSE None

\* The pair of descriptor fields the last of the options `names` gives.
CredentialsFrom(a, names) ==
    IF is_none(LastValue(a, names)) THEN <<None, None>>
    ELSE <<Some(UserOf(unwrap(LastValue(a, names)))),
           PasswordOf(unwrap(LastValue(a, names)))>>

\* C29: username and password of the descriptor are those of the last -u
\* alone: a value without colon gives the username and no password, whatever
\* -u came before, and resolve_password then returns RUSTCURL_PASSWORD; a
\* value ending in its colon gives the empty password, which
\* resolve_password returns whatever RUSTCURL_PASSWORD holds.  proxy_user
\* and proxy_password are those of the last --proxy-user alone.
C29_LastUserTokenAlone ==
    parsed.state = "ok" =>
        /\ <<ParsedConfig.username, ParsedConfig.password>> =
              CredentialsFrom(args, {"-u", "--user"})
        /\ <<ParsedConfig.proxy_user, ParsedConfig.proxy_password>> =
              CredentialsFrom(args, {"--proxy-user"})
        /\ \A k \in 1..Len(resolved.password) :
              resolved.password[k] =
                  IF is_some(CredentialsFrom(args, {"-u", "--user"})[2])
                  THEN CredentialsFrom(args, {"-u", "--user"})[2]
                  ELSE env_var_ok(env, "RUSTCURL_PASSWORD")

\* -u with an empty password, then -u without a colon: no password is on the
\* descriptor and resolve_password has returned RUSTCURL_PASSWORD.
C29_Witness ==
    /\ parsed.state = "ok"
    /\ args = <<"-u", "bob:", "-u", "alice", "alice">>
    /\ ParsedConfig.username = Some("alice")
    /\ ParsedConfig.password = None
    /\ resolved.password = <<Some(EnvText("RUSTCURL_PASSWORD"))>>

----------------------------------------------------------------------------
(* Claims about the scan of parse_args, checked under SpecCommandLine.     *)

\* The locals the arm of a value-taking option assigns.
OwnLocals(tok) ==
    {ValueOptions[tok].local}
        \cup (IF ValueOptions[tok].kind = "user" THEN {"password"} ELSE {})
        \cup (IF ValueOptions[tok].kind = "proxy_user" THEN {"proxy_password"} ELSE {})

\* C30: the scan index never goes back and never passes the end of the list;
\* an iteration after which the scan goes on consumes the tokens from the
\* index on: two for a value-taking option, the option and its value, and
\* then only the locals of that option change, whatever the value looks
\* like, so that the value is not taken for an option or for the URL as
\* well; one token otherwise.
C30_EachTokenConsumedOnce ==
    [][/\ i' >= i
       /\ i' <= Len(args)
       /\ (parsed.state = "scanning" /\ parsed'.state = "scanning") =>
             IF args[i + 1] \in DOMAIN ValueOptions
             THEN /\ i' = i + 2
                  /\ \A f \in DOMAIN locals \ OwnLocals(args[i + 1]) :
                        locals'[f] = locals[f]
                  /\ ValueOptions[args[i + 1]].kind = "text" =>
                        locals'[ValueOptions[args[i + 1]].local] = Some(args[i + 2])
             ELSE i' = i + 1]_vars

\* -o followed by -s and a URL: -s is the output path and silent is not set.
C30_Witness ==
    /\ parsed.state = "ok"
    /\ args = <<"-o", "-s", "x.com">>
    /\ i = 3
    /\ ParsedConfig.output = Some("-s")
    /\ ~ParsedConfig.silent
    /\ ParsedConfig.url = "x.com"

====
